---------------------------- MODULE Spec2Model ----------------------------
(***************************************************************************)
(* Model of the content harvester (package harvester):                     *)
(*   - rules.go-style default rule lists (ignore / clean),                 *)
(*   - harvestResource / cleanResource / getMetaRefresh (resource),        *)
(*   - ContentHarvester.HarvestResources and HarvestedResources.Serialize, *)
(*   - generateUniqueID / nextRandomNumber (keys.go).                      *)
(* Spec follows a batch (harvest, then serialize); SpecKeys one call of    *)
(* generateUniqueID; SpecClean the cleaning step under every rule;         *)
(* SpecMeta getMetaRefresh on one body; SpecLock two concurrent calls of   *)
(* generateUniqueID.                                                       *)
(*                                                                         *)
(* Strings are sequences of tokens (a token is a run of characters that    *)
(* the regular expressions of the program never split).  A *url.URL is a   *)
(* record; URLString and URLParse convert between the two.                 *)
(***************************************************************************)
EXTENDS Integers, Sequences, FiniteSets, TLC

VARIABLES
    \* ---- ContentHarvester.HarvestResources -------------------------------
    urls,                 \* discoverURLsRegEx.FindAllString(content, -1)
    followHTMLRedirects,  \* ContentHarvester.followHTMLRedirects
    hpc,                  \* position of HarvestResources: "loop" | "done"
    idx,                  \* index of the range loop over urls
    seenUrls,             \* seenUrls map (its key set)
    Resources,            \* HarvestedResources.Resources
    resolves,             \* history: one record per harvestResource invocation
    entries,              \* history: per appended entry, what the iteration did
    \* ---- HarvestedResources.Serialize ------------------------------------
    spc,                  \* "idle" | "loop" | "returned"
    sidx,                 \* index of the range loop over r.Resources
    hooks,                \* which optional hooks the serializer supplies
    serLog,               \* history: callbacks invoked, in order
    serErr,               \* the error Serialize returned ("nil" if none)
    \* ---- generateUniqueID ------------------------------------------------
    rand,                 \* var rand uint32, as <<high 16 bits, low 16 bits>>
    kpc,                  \* "idle" | "loop" | "done"
    ki,                   \* loop variable i
    nconflict,            \* nconflict
    kret,                 \* value returned by generateUniqueID
    khist,                \* history of the current call (draws, predicate calls)
    \* ---- cleanResource ---------------------------------------------------
    cleanResourceRule,    \* ContentHarvester.cleanResourceRule
    cin,                  \* a resolved URL handed to the cleaning step
    cruns,                \* history: one record per cleaning run on cin
    \* ---- getMetaRefresh --------------------------------------------------
    mdoc,                 \* the body of an HTML response
    mres,                 \* what getMetaRefresh returned for it (Nil: not called)
    \* ---- concurrent generateUniqueID calls (rand is shared) ---------------
    randmu,               \* var randmu sync.Mutex: its holder, or Free
    gpc,                  \* position of each goroutine
    gloc,                 \* locals of each goroutine: r, i, nconflict, nextInt
    \* ---- nextRandomNumber on its own -------------------------------------
    rlog                  \* history: one record per nextRandomNumber call

hvars == <<urls, followHTMLRedirects, hpc, idx, seenUrls, Resources, resolves, entries>>
svars == <<spc, sidx, hooks, serLog, serErr>>
kvars == <<rand, kpc, ki, nconflict, kret, khist>>
cvars == <<cleanResourceRule, cin, cruns>>
mvars == <<mdoc, mres>>
lvars == <<randmu, gpc, gloc>>
rvars == <<rlog>>
vars == <<hvars, svars, kvars, cvars, mvars, lvars, rvars>>

(***************************************************************************)
(* Bounds of the model.                                                    *)
(***************************************************************************)
MaxUrls == 2

\* nil pointer / nil error
Nil == [nil |-> TRUE]

\* the sequences over S of length at most n
SeqsUpTo(S, n) == UNION {[1..k -> S] : k \in 0..n}

Contains(s, x) == \E i \in DOMAIN s : s[i] = x

\* strings.Contains(s, sub) on token sequences
IsInfix(sub, s) ==
    \E i \in 0..(Len(s) - Len(sub)) : SubSeq(s, i + 1, i + Len(sub)) = sub

\* fmt %d on the status codes of the model
Itoa(n) ==
    CASE n = 200 -> "200"
      [] n = 404 -> "404"
      [] n = 500 -> "500"
      [] OTHER -> "?"

(***************************************************************************)
(* net/url: URL.String, url.Parse, URL.Query, Values.Del, Values.Encode    *)
(***************************************************************************)
\* A query string is a sequence of raw (still escaped) pairs k=v.
RawPair(k, v) == [k |-> k, v |-> v]

MkURL(scheme, host, path, rawQuery) ==
    [Scheme |-> scheme, Host |-> host, Path |-> path, RawQuery |-> rawQuery]

RECURSIVE QueryTokens(_)
QueryTokens(q) ==
    IF q = <<>> THEN <<>>
    ELSE <<q[1].k, "=", q[1].v>>
         \o (IF Len(q) > 1 THEN <<"&">> ELSE <<>>)
         \o QueryTokens(Tail(q))

\* URL.String(): scheme://host/path?query
URLString(u) ==
    <<u.Scheme, "://", u.Host>> \o u.Path
    \o (IF u.RawQuery = <<>> THEN <<>> ELSE <<"?">> \o QueryTokens(u.RawQuery))

RECURSIVE TokensQuery(_)
TokensQuery(t) ==
    IF Len(t) < 3 THEN <<>>
    ELSE <<RawPair(t[1], t[3])>>
         \o (IF Len(t) > 4 THEN TokensQuery(SubSeq(t, 5, Len(t))) ELSE <<>>)

FirstIndex(s, x) ==
    IF Contains(s, x) THEN CHOOSE i \in DOMAIN s : s[i] = x /\ \A j \in 1..(i - 1) : s[j] # x
    ELSE 0

\* url.Parse of a string produced by URL.String
URLParse(s) ==
    LET q == FirstIndex(s, "?")
        front == IF q = 0 THEN s ELSE SubSeq(s, 1, q - 1)
    IN MkURL(s[1], s[3], SubSeq(front, 4, Len(front)),
             IF q = 0 THEN <<>> ELSE TokensQuery(SubSeq(s, q + 1, Len(s))))

\* url.QueryUnescape / url.QueryEscape on the tokens of the model
QueryUnescape(t) ==
    CASE t = "a%20b" -> "a b"
      [] t = "a+b"   -> "a b"
      [] t = "utm%5Fsource" -> "utm_source"
      [] OTHER       -> t

QueryEscape(t) ==
    CASE t = "a b" -> "a+b"
      [] OTHER     -> t

\* URL.Query(): key -> values in their order of appearance (url.Values)
Query(u) ==
    LET q == u.RawQuery
        keys == {QueryUnescape(q[i].k) : i \in DOMAIN q}
        Vals(k) == LET F[i \in 0..Len(q)] ==
                           IF i = 0 THEN <<>>
                           ELSE IF QueryUnescape(q[i].k) = k
                                THEN Append(F[i - 1], QueryUnescape(q[i].v))
                                ELSE F[i - 1]
                   IN F[Len(q)]
    IN [k \in keys |-> Vals(k)]

\* Values.Del that deletes nothing
Del_Nothing(values, key) == values

\* Values.Del
Del(values, key) == [k \in (DOMAIN values) \ {key} |-> values[k]]

\* sort.Strings order of the parameter names of the model
SortedNames == <<"id", "ref", "utm_medium", "utm_source">>
KeyRank(k) == FirstIndex(SortedNames, k)

RECURSIVE EncodeKeys(_, _)
EncodeKeys(values, keys) ==
    IF keys = {} THEN <<>>
    ELSE LET k == CHOOSE x \in keys : \A y \in keys : KeyRank(x) <= KeyRank(y)
         IN [i \in DOMAIN values[k] |-> RawPair(QueryEscape(k), QueryEscape(values[k][i]))]
            \o EncodeKeys(values, keys \ {k})

\* Values.Encode() that writes only the first value of every key
Encode_FirstValueOnly(values) ==
    EncodeKeys([k \in DOMAIN values |-> <<values[k][1]>>], DOMAIN values)

\* Values.Encode(): "URL encoded" form sorted by key
Encode(values) == EncodeKeys(values, DOMAIN values)

(***************************************************************************)
(* Default rules                                                           *)
(***************************************************************************)
\* regexp ^https://twitter.com/(.*?)/status/(.*)$
MatchTwitterStatus(s) ==
    /\ Len(s) >= 7
    /\ s[1] = "https" /\ s[2] = "://" /\ s[3] = "twitter.com" /\ s[4] = "/"
    /\ \E j \in 5..(Len(s) - 2) : s[j] = "/" /\ s[j + 1] = "status" /\ s[j + 2] = "/"

\* regexp https://t.co (not anchored)
MatchTco(s) ==
    \E i \in 1..(Len(s) - 2) : s[i] = "https" /\ s[i + 1] = "://" /\ s[i + 2] = "t.co"

\* regexp ^utm_
MatchUtm(name) == name \in {"utm_source", "utm_medium"}

RegExMatch(re, s) ==
    CASE re = "^https://twitter.com/(.*?)/status/(.*)$" -> MatchTwitterStatus(s)
      [] re = "https://t.co" -> MatchTco(s)
      [] re = "^utm_" -> MatchUtm(s)
      [] re = "source$" -> s = "utm_source"
      [] re = "^ref$" -> s = "ref"
      [] OTHER -> FALSE

defaultIgnoreURLsRegExList == <<"^https://twitter.com/(.*?)/status/(.*)$", "https://t.co">>
defaultCleanURLsRegExList == <<"^utm_">>

\* first regular expression of the list l that matches s (0: none)
FirstMatch(l, s) ==
    IF \E i \in DOMAIN l : RegExMatch(l[i], s)
    THEN CHOOSE i \in DOMAIN l : RegExMatch(l[i], s) /\ \A j \in 1..(i - 1) : ~RegExMatch(l[j], s)
    ELSE 0

\* ignoreURLsRegExList.IgnoreDiscoveredResource
IgnoreDiscoveredResource(url) ==
    LET URLtext == URLString(url)
        m == FirstMatch(defaultIgnoreURLsRegExList, URLtext)
    IN IF m # 0
       THEN [ignore |-> TRUE,
             reason |-> <<"Matched Ignore Rule ", defaultIgnoreURLsRegExList[m]>>]
       ELSE [ignore |-> FALSE, reason |-> <<>>]

\* A CleanDiscoveredResourceRule: what its CleanDiscoveredResource answers
\* (gate) and the list of regular expressions its RemoveQueryParamFromResource
\* goes through.  The type removeParamsFromURLsRegExList answers true for
\* every URL; another implementation of the interface may refuse a URL.
removeParamsFromURLsRegExList(l) == [gate |-> TRUE, list |-> l]

\* the rules the model hands to the cleaning step
CleanRules ==
    {removeParamsFromURLsRegExList(l) :
        l \in {defaultCleanURLsRegExList, <<>>, <<"^ref$">>, <<"source$", "^utm_">>}}
    \cup {[gate |-> FALSE, list |-> defaultCleanURLsRegExList]}

\* rule.CleanDiscoveredResource(url)
CleanDiscoveredResource(rule, url) == rule.gate

\* rule.RemoveQueryParamFromResource(paramName)
RemoveQueryParamFromResource(rule, paramName) ==
    LET m == FirstMatch(rule.list, paramName)
    IN IF m # 0
       THEN [remove |-> TRUE, reason |-> <<"Matched cleaner rule ", rule.list[m]>>]
       ELSE [remove |-> FALSE, reason |-> <<>>]

(***************************************************************************)
(* The network: what http.Get may answer for a text, and what a download   *)
(* may do.  A response is the final one, after the transport redirects.    *)
(***************************************************************************)
Elem(tag) == [tag |-> tag, Attr |-> <<>>]
Meta(httpEquiv, content) ==
    [tag |-> "meta", Attr |-> <<[Key |-> "http-equiv", Val |-> httpEquiv],
                               [Key |-> "content", Val |-> content]>>]

\* An HTML body: whether reading it fails, and its element nodes in document
\* (depth-first) order, as html.Parse builds them.
Doc(nodes) == [parseError |-> FALSE, nodes |-> nodes]
DocUnreadable == [parseError |-> TRUE, nodes |-> <<>>]
DocPlain == Doc(<<Elem("html"), Elem("head"), Elem("title"), Elem("body"), Elem("p")>>)
DocRefresh(target) ==
    Doc(<<Elem("html"), Elem("head"), Meta(<<"refresh">>, <<"2", ";", "url=">> \o target),
          Elem("body")>>)

TxtMalformed == <<"https", "://", "t">>
TxtGone      == <<"https", "://", "t.co", "/", "fDxPF">>
TxtTweet     == <<"https", "://", "t.co", "/", "xNzrxkHE1u">>
TxtArticle   == <<"https", "://", "t.co", "/", "csWpQq5mbn">>
TxtRefresh   == <<"https", "://", "t.co", "/", "4dcdNEQYHa">>
TxtPaper     == <<"http", "://", "ceur-ws.org", "/", "paper-05.pdf">>
TxtTarget    == <<"https", "://", "www.sopranodesign.com", "/", "secure", "?",
                  "utm_source", "=", "twitter", "&", "utm_medium", "=", "socialmedia">>

URLTweet   == MkURL("https", "twitter.com", <<"/", "user", "/", "status", "/", "1">>, <<>>)
URLArticle == MkURL("https", "www.washingtonexaminer.com", <<"/", "article">>,
                    <<RawPair("utm_source", "twitter"), RawPair("id", "a%20b")>>)
URLLinked  == MkURL("https", "lnkd.in", <<"/", "x">>, <<>>)
URLPaper   == MkURL("http", "ceur-ws.org", <<"/", "paper-05.pdf">>, <<>>)

\* candidate texts the discovery pattern may find in the content
Candidates == {TxtMalformed, TxtGone, TxtTweet, TxtArticle, TxtRefresh, TxtPaper}

ErrResponse == [err |-> TRUE]
Response(status, url, contentType, body) ==
    [err |-> FALSE, StatusCode |-> status, URL |-> url, ContentType |-> contentType,
     Body |-> body]

\* http.Get(text): a connection error is possible for every text
Web(text) ==
    {ErrResponse} \cup
    (CASE text = TxtMalformed -> {}
       [] text = TxtGone -> {Response(404, URLParse(TxtGone), "text/html", DocPlain),
                             Response(500, URLParse(TxtGone), "", DocUnreadable)}
       [] text = TxtTweet -> {Response(200, URLTweet, "text/html", DocPlain)}
       [] text = TxtArticle ->
            {Response(200, URLArticle, "text/html; charset=utf-8", DocPlain),
             Response(200, URLArticle, "text/html", DocUnreadable)}
       [] text = TxtRefresh -> {Response(200, URLLinked, "text/html", DocRefresh(TxtTarget))}
       [] text = TxtTarget ->
            {Response(200, URLParse(TxtTarget), "text/html", DocPlain),
             Response(200, URLParse(TxtTarget), "text/html", DocRefresh(TxtRefresh))}
       [] text = TxtPaper ->
            {Response(200, URLPaper, "application/pdf", DocPlain),
             Response(200, URLPaper, "", DocPlain),
             Response(200, URLPaper, "text/html; charset", DocPlain)}
       [] OTHER -> {})

\* what DownloadContent meets: ioutil.TempFile fails, io.Copy fails, or the
\* file is stored and filetype.Match answers
DownloadOutcomes == {"tempfile error", "copy error", "stored"}

(***************************************************************************)
(* Content classification                                                  *)
(***************************************************************************)
\* mime.ParseMediaType on the header values of the model
ParseMediaType(ct) ==
    CASE ct = "text/html" -> [MediaType |-> "text/html", err |-> Nil]
      [] ct = "text/html; charset=utf-8" -> [MediaType |-> "text/html", err |-> Nil]
      [] ct = "application/pdf" -> [MediaType |-> "application/pdf", err |-> Nil]
      [] ct = "text/html; charset" ->
            [MediaType |-> "text/html", err |-> [error |-> "mime: invalid media parameter"]]
      [] OTHER -> [MediaType |-> "", err |-> [error |-> "mime: no media type"]]

Call(op, arg) == [op |-> op, arg |-> arg]

\* DownloadContent
DownloadContent(url, resp, dl) ==
    IF dl = "tempfile error"
    THEN [dc |-> [URL |-> url, DownloadError |-> [error |-> "tempfile"], FileTypeError |-> Nil],
          calls |-> <<>>]
    ELSE IF dl = "copy error"
    THEN [dc |-> [URL |-> url, DownloadError |-> [error |-> "copy"], FileTypeError |-> Nil],
          calls |-> <<Call("io.Copy", resp.URL), Call("Body.Close", resp.URL)>>]
    ELSE [dc |-> [URL |-> url, DownloadError |-> Nil, FileTypeError |-> Nil],
          calls |-> <<Call("io.Copy", resp.URL), Call("Body.Close", resp.URL)>>]

\* HarvestedResourceContent.IsHTML
IsHTML(c) == c.MediaType = "text/html"

\* HarvestedResourceContent.WasDownloaded
WasDownloaded(c) == c.Downloaded # Nil

\* detectResourceContent without the early return for HTML
detectResourceContent_DownloadsHTML(url, resp, dl) ==
    LET ContentType == resp.ContentType
        parsed == ParseMediaType(ContentType)
        result == [URL |-> url, ContentType |-> ContentType,
                   MediaType |-> IF ContentType # "" THEN parsed.MediaType ELSE "",
                   MediaTypeError |-> IF ContentType # "" THEN parsed.err ELSE Nil,
                   Downloaded |-> Nil]
        here == <<Call("detectResourceContent", url)>>
    IN IF ContentType # "" /\ result.MediaTypeError # Nil
       THEN [content |-> result, calls |-> here]
       ELSE LET d == DownloadContent(url, resp, dl)
            IN [content |-> [result EXCEPT !.Downloaded = d.dc],
                calls |-> here \o <<Call("DownloadContent", url)>> \o d.calls]

\* ContentHarvester.detectResourceContent
detectResourceContent(url, resp, dl) ==
    LET ContentType == resp.ContentType
        parsed == ParseMediaType(ContentType)
        result == [URL |-> url, ContentType |-> ContentType,
                   MediaType |-> IF ContentType # "" THEN parsed.MediaType ELSE "",
                   MediaTypeError |-> IF ContentType # "" THEN parsed.err ELSE Nil,
                   Downloaded |-> Nil]
        here == <<Call("detectResourceContent", url)>>
    IN IF ContentType # "" /\ (result.MediaTypeError # Nil \/ IsHTML(result))
       THEN [content |-> result, calls |-> here]
       ELSE LET d == DownloadContent(url, resp, dl)
            IN [content |-> [result EXCEPT !.Downloaded = d.dc],
                calls |-> here \o <<Call("DownloadContent", url)>> \o d.calls]

(***************************************************************************)
(* Meta refresh detection                                                  *)
(***************************************************************************)
\* strings.EqualFold(a, b) on the tokens of the model
Fold(t) ==
    CASE t \in {"HEAD", "Head"} -> "head"
      [] t \in {"META", "Meta"} -> "meta"
      [] t \in {"HTTP-EQUIV", "Http-Equiv"} -> "http-equiv"
      [] t \in {"REFRESH", "Refresh"} -> "refresh"
      [] t \in {"CONTENT", "Content"} -> "content"
      [] OTHER -> t
EqualFold(a, b) == Fold(a) = Fold(b)

\* strings.TrimSpace on a token sequence
RECURSIVE TrimLeft(_)
TrimLeft(s) == IF s # <<>> /\ s[1] = " " THEN TrimLeft(Tail(s)) ELSE s
RECURSIVE TrimRight(_)
TrimRight(s) ==
    IF s # <<>> /\ s[Len(s)] = " " THEN TrimRight(SubSeq(s, 1, Len(s) - 1)) ELSE s
TrimSpace(s) == TrimRight(TrimLeft(s))

IsRefreshMeta(n) ==
    /\ EqualFold(n.tag, "meta")
    /\ \E a \in DOMAIN n.Attr :
          /\ EqualFold(n.Attr[a].Key, "http-equiv")
          /\ LET v == TrimSpace(n.Attr[a].Val)
             IN Len(v) = 1 /\ EqualFold(v[1], "refresh")

\* findMetaRefreshTagInHead: the walk visits the element nodes in document
\* order; inHead is set at the head element and never reset; every matching
\* meta node visited while inHead overwrites metaTag.  0: nil.
findMetaRefreshTagInHead(doc) ==
    LET nodes == doc.nodes
        F[i \in 0..Len(nodes)] ==
            IF i = 0 THEN [inHead |-> FALSE, metaTag |-> 0]
            ELSE LET inHead == F[i - 1].inHead \/ EqualFold(nodes[i].tag, "head")
                 IN [inHead |-> inHead,
                     metaTag |-> IF inHead /\ IsRefreshMeta(nodes[i]) THEN i
                                 ELSE F[i - 1].metaTag]
    IN F[Len(nodes)].metaTag

IsDigit(t) == t \in {"0", "1", "2", "3", "4", "5", "6", "7", "8", "9"}

\* metaRefreshContentRegEx ^(\d?)\s?;\s?url=(.*)$ : FindStringSubmatch, as
\* [ok, url]; a digit token is one digit, " " one white space character.
metaRefreshContentRegEx(c) ==
    LET p1 == IF Len(c) >= 1 /\ IsDigit(c[1]) THEN 2 ELSE 1
        p2 == IF Len(c) >= p1 /\ c[p1] = " " THEN p1 + 1 ELSE p1
        p3 == p2 + 1
        p4 == IF Len(c) >= p3 /\ c[p3] = " " THEN p3 + 1 ELSE p3
    IN IF Len(c) >= p4 /\ c[p2] = ";" /\ c[p4] = "url="
       THEN [ok |-> TRUE, url |-> SubSeq(c, p4 + 1, Len(c))]
       ELSE [ok |-> FALSE, url |-> <<>>]

NoRefresh(err, calls) ==
    [isHTMLRedirect |-> FALSE, htmlRedirectURL |-> <<>>, htmlParseError |-> err,
     calls |-> calls]

\* getMetaRefresh
getMetaRefresh(resp) ==
    LET parse == <<Call("getMetaRefresh", resp.URL)>>
        closed == parse \o <<Call("Body.Close", resp.URL)>>
    IN IF resp.Body.parseError
       THEN NoRefresh([error |-> "html.Parse"], parse)
       ELSE LET mn == findMetaRefreshTagInHead(resp.Body)
            IN IF mn = 0 THEN NoRefresh(Nil, closed)
               ELSE LET Attr == resp.Body.nodes[mn].Attr
                        Hit(a) == /\ EqualFold(Attr[a].Key, "content")
                                  /\ metaRefreshContentRegEx(TrimSpace(Attr[a].Val)).ok
                    IN IF \E a \in DOMAIN Attr : Hit(a)
                       THEN LET a == CHOOSE x \in DOMAIN Attr :
                                        Hit(x) /\ \A y \in 1..(x - 1) : ~Hit(y)
                            IN [isHTMLRedirect |-> TRUE,
                                htmlRedirectURL |->
                                    metaRefreshContentRegEx(TrimSpace(Attr[a].Val)).url,
                                htmlParseError |-> Nil, calls |-> closed]
                       ELSE NoRefresh(Nil, closed)

(***************************************************************************)
(* Resolution of one candidate: cleanResource and harvestResource          *)
(***************************************************************************)
RECURSIVE SetToSortedSeq(_)
SetToSortedSeq(keys) ==
    IF keys = {} THEN <<>>
    ELSE LET k == CHOOSE x \in keys : \A y \in keys : KeyRank(x) <= KeyRank(y)
         IN <<k>> \o SetToSortedSeq(keys \ {k})

\* cleanResource, one iteration of the range loop: m is what
\* RemoveQueryParamFromResource answered for paramName
cleanIteration(prev, paramName, m) ==
    IF m.remove
    THEN [cleanedParams |-> Append(prev.cleanedParams,
                                   [paramName |-> paramName, reason |-> m.reason]),
          harvestedParams |-> Del(prev.harvestedParams, paramName)]
    ELSE prev

\* cleanResource, the range loop over harvestedParams, names being the
\* parameter names in the order they are visited
cleanLoop(rule, harvestedParams, names) ==
    LET Loop[i \in 0..Len(names)] ==
            IF i = 0 THEN [cleanedParams |-> <<>>, harvestedParams |-> harvestedParams]
            ELSE cleanIteration(Loop[i - 1], names[i],
                                RemoveQueryParamFromResource(rule, names[i]))
    IN [after |-> Loop[Len(names)],
        calls |-> [i \in DOMAIN names |-> Call("RemoveQueryParamFromResource", names[i])]]

\* cleanResource, from "if len(cleanedParams) > 0" to the end
cleanReturn(url, cleanedURL, loop) ==
    IF Len(loop.after.cleanedParams) > 0
    THEN [cleaned |-> TRUE,
          url |-> [cleanedURL EXCEPT !.RawQuery = Encode(loop.after.harvestedParams)],
          cleanedParams |-> loop.after.cleanedParams,
          calls |-> <<Call("CleanDiscoveredResource", url)>> \o loop.calls]
    ELSE [cleaned |-> FALSE, url |-> Nil, cleanedParams |-> loop.after.cleanedParams,
          calls |-> <<Call("CleanDiscoveredResource", url)>> \o loop.calls]

\* cleanResource after the gate: cleanedURL is url.Parse(url.String())
cleanQuery(url, cleanedURL, harvestedParams, rule) ==
    cleanReturn(url, cleanedURL,
                cleanLoop(rule, harvestedParams, SetToSortedSeq(DOMAIN harvestedParams)))

cleanParsed(url, cleanedURL, rule) == cleanQuery(url, cleanedURL, Query(cleanedURL), rule)

\* cleanResource with the query string always rewritten and reported cleaned
cleanResource_Reencoded(url, rule) ==
    [cleaned |-> TRUE,
     url |-> [URLParse(URLString(url)) EXCEPT !.RawQuery = Encode(Query(url))],
     cleanedParams |-> <<>>,
     calls |-> <<Call("CleanDiscoveredResource", url)>>]

\* cleanResource.  The range over the url.Values map visits every parameter
\* name once, in an order Go leaves unspecified; only the set of removed
\* names and the number of matches are used afterwards.  url.Parse is here
\* the method of the parameter named url: it resolves the text of the URL
\* against the URL itself, which gives the same URL for the paths of the
\* model (they hold no dot segments).
cleanResource(url, rule) ==
    IF ~CleanDiscoveredResource(rule, url)
    THEN [cleaned |-> FALSE, url |-> Nil, cleanedParams |-> <<>>,
          calls |-> <<Call("CleanDiscoveredResource", url)>>]
    ELSE cleanParsed(url, URLParse(URLString(url)), rule)

\* new(HarvestedResource) with origURLtext set
NewResource(origURLtext) ==
    [origURLtext |-> origURLtext, origResource |-> Nil,
     isURLValid |-> FALSE, isDestValid |-> FALSE, httpStatusCode |-> 0,
     isURLIgnored |-> FALSE, ignoreReason |-> <<>>, isURLCleaned |-> FALSE,
     isHTMLRedirect |-> FALSE, htmlRedirectURL |-> <<>>, htmlParseError |-> Nil,
     resolvedURL |-> Nil, cleanedURL |-> Nil, finalURL |-> Nil, resourceContent |-> Nil]

\* harvestResource, result.resourceContent = ... to the end
ContentStage(acc, resp, dl) ==
    LET det == detectResourceContent(acc.res.finalURL, resp, dl)
        r1 == [acc.res EXCEPT !.resourceContent = det.content]
    IN IF IsHTML(det.content)
       THEN LET mr == getMetaRefresh(resp)
            IN [res |-> [r1 EXCEPT !.isHTMLRedirect = mr.isHTMLRedirect,
                                   !.htmlRedirectURL = mr.htmlRedirectURL,
                                   !.htmlParseError = mr.htmlParseError],
                calls |-> acc.calls \o det.calls \o mr.calls]
       ELSE [res |-> r1, calls |-> acc.calls \o det.calls]

\* harvestResource, "if urlsParamsCleaned" to the end; cl is what
\* cleanResource returned
CleanTaken(acc, cl, resp, dl) ==
    ContentStage([res |-> IF cl.cleaned
                          THEN [acc.res EXCEPT !.cleanedURL = cl.url, !.finalURL = cl.url,
                                               !.isURLCleaned = TRUE]
                          ELSE [acc.res EXCEPT !.isURLCleaned = FALSE],
                  calls |-> acc.calls \o cl.calls], resp, dl)

\* CleanStage with "result.finalURL = cleanedURL" left out
CleanStage_FinalNotUpdated(acc, resp, dl) ==
    LET r1 == [acc.res EXCEPT !.isURLIgnored = FALSE, !.isDestValid = TRUE]
        cl == cleanResource(r1.resolvedURL, cleanResourceRule)
        r2 == IF cl.cleaned
              THEN [r1 EXCEPT !.cleanedURL = cl.url, !.isURLCleaned = TRUE]
              ELSE [r1 EXCEPT !.isURLCleaned = FALSE]
    IN ContentStage([res |-> r2, calls |-> acc.calls \o cl.calls], resp, dl)

\* CleanStage with the cleaning done on the resolved URL itself, not a copy
CleanStage_ResolvedOverwritten(acc, resp, dl) ==
    LET r1 == [acc.res EXCEPT !.isURLIgnored = FALSE, !.isDestValid = TRUE]
        cl == cleanResource(r1.resolvedURL, cleanResourceRule)
        r2 == IF cl.cleaned
              THEN [r1 EXCEPT !.resolvedURL = cl.url, !.cleanedURL = cl.url,
                              !.finalURL = cl.url, !.isURLCleaned = TRUE]
              ELSE [r1 EXCEPT !.isURLCleaned = FALSE]
    IN ContentStage([res |-> r2, calls |-> acc.calls \o cl.calls], resp, dl)

\* harvestResource, result.isURLIgnored = false to the cleaning if/else
CleanStage(acc, resp, dl) ==
    CleanTaken([res |-> [acc.res EXCEPT !.isURLIgnored = FALSE, !.isDestValid = TRUE],
                calls |-> acc.calls],
               cleanResource(acc.res.resolvedURL, cleanResourceRule), resp, dl)

\* IgnoreStage with the "return result" of the ignore branch left out
IgnoreStage_NoReturn(acc, resp, dl) ==
    LET r1 == [acc.res EXCEPT !.resolvedURL = resp.URL, !.finalURL = resp.URL]
        ig == IgnoreDiscoveredResource(r1.resolvedURL)
        calls == acc.calls \o <<Call("IgnoreDiscoveredResource", r1.resolvedURL)>>
    IN CleanStage([res |-> [r1 EXCEPT !.ignoreReason = ig.reason], calls |-> calls], resp, dl)

\* IgnoreStage with the rule asked about the candidate text, not the resolved URL
IgnoreStage_OnCandidate(acc, resp, dl) ==
    LET r1 == [acc.res EXCEPT !.resolvedURL = resp.URL, !.finalURL = resp.URL]
        ig == IgnoreDiscoveredResource(URLParse(r1.origURLtext))
        calls == acc.calls \o <<Call("IgnoreDiscoveredResource", URLParse(r1.origURLtext))>>
    IN IF ig.ignore
       THEN [res |-> [r1 EXCEPT !.isDestValid = TRUE, !.isURLIgnored = TRUE,
                                !.ignoreReason = ig.reason],
             calls |-> calls]
       ELSE CleanStage([res |-> r1, calls |-> calls], resp, dl)

\* IgnoreStage with finalURL set only after cleaning (no provisional value)
IgnoreStage_NoProvisionalFinal(acc, resp, dl) ==
    LET r1 == [acc.res EXCEPT !.resolvedURL = resp.URL]
        ig == IgnoreDiscoveredResource(r1.resolvedURL)
        calls == acc.calls \o <<Call("IgnoreDiscoveredResource", r1.resolvedURL)>>
    IN IF ig.ignore
       THEN [res |-> [r1 EXCEPT !.isDestValid = TRUE, !.isURLIgnored = TRUE,
                                !.ignoreReason = ig.reason],
             calls |-> calls]
       ELSE CleanStage([res |-> [r1 EXCEPT !.finalURL = resp.URL], calls |-> calls], resp, dl)

\* harvestResource, result.resolvedURL = resp.Request.URL to the ignore return
IgnoreStage(acc, resp, dl) ==
    LET r1 == [acc.res EXCEPT !.resolvedURL = resp.URL, !.finalURL = resp.URL]
        ig == IgnoreDiscoveredResource(r1.resolvedURL)
        calls == acc.calls \o <<Call("IgnoreDiscoveredResource", r1.resolvedURL)>>
    IN IF ig.ignore
       THEN [res |-> [r1 EXCEPT !.isDestValid = TRUE, !.isURLIgnored = TRUE,
                                !.ignoreReason = ig.reason],
             calls |-> calls]
       ELSE CleanStage([res |-> r1, calls |-> calls], resp, dl)

\* StatusStage with the "return result" of the non-200 branch left out
StatusStage_NoReturn(acc, resp, dl) ==
    LET r1 == [acc.res EXCEPT !.httpStatusCode = resp.StatusCode]
    IN IF r1.httpStatusCode # 200
       THEN IgnoreStage([res |-> [r1 EXCEPT !.isDestValid = FALSE, !.isURLIgnored = TRUE,
                                  !.ignoreReason = <<"Invalid HTTP Status Code ",
                                                     Itoa(resp.StatusCode)>>],
                         calls |-> acc.calls], resp, dl)
       ELSE IgnoreStage([res |-> r1, calls |-> acc.calls], resp, dl)

\* StatusStage with result.resolvedURL assigned before the status is tested
StatusStage_ResolvedBeforeStatus(acc, resp, dl) ==
    LET r1 == [acc.res EXCEPT !.httpStatusCode = resp.StatusCode, !.resolvedURL = resp.URL]
    IN IF r1.httpStatusCode # 200
       THEN [res |-> [r1 EXCEPT !.isDestValid = FALSE, !.isURLIgnored = TRUE,
                                !.ignoreReason = <<"Invalid HTTP Status Code ", Itoa(resp.StatusCode)>>],
             calls |-> acc.calls]
       ELSE IgnoreStage([res |-> r1, calls |-> acc.calls], resp, dl)

\* harvestResource, result.httpStatusCode = resp.StatusCode to the status return
StatusStage(acc, resp, dl) ==
    LET r1 == [acc.res EXCEPT !.httpStatusCode = resp.StatusCode]
    IN IF r1.httpStatusCode # 200
       THEN [res |-> [r1 EXCEPT !.isDestValid = FALSE, !.isURLIgnored = TRUE,
                                !.ignoreReason = <<"Invalid HTTP Status Code ", Itoa(resp.StatusCode)>>],
             calls |-> acc.calls]
       ELSE IgnoreStage([res |-> r1, calls |-> acc.calls], resp, dl)

\* harvestResource with the reason of a failed fetch not naming the text
harvestResource_ReasonWithoutText(origURLtext, resp, dl) ==
    LET r0 == NewResource(origURLtext)
        r1 == [r0 EXCEPT !.isURLValid = ~resp.err]
        calls == <<Call("http.Get", origURLtext)>>
    IN IF r1.isURLValid = FALSE
       THEN [res |-> [r1 EXCEPT !.isDestValid = FALSE, !.isURLIgnored = TRUE,
                                !.ignoreReason = <<"Invalid URL">>],
             calls |-> calls]
       ELSE StatusStage([res |-> r1, calls |-> calls], resp, dl)

\* harvestResource: resp is what http.Get(origURLtext) answers, dl what a
\* download of the body meets.  [res: the *HarvestedResource, calls: the
\* collaborators called, in order]
harvestResource(origURLtext, resp, dl) ==
    LET r0 == NewResource(origURLtext)
        r1 == [r0 EXCEPT !.isURLValid = ~resp.err]
        calls == <<Call("http.Get", origURLtext)>>
    IN IF r1.isURLValid = FALSE
       THEN [res |-> [r1 EXCEPT !.isDestValid = FALSE, !.isURLIgnored = TRUE,
                                !.ignoreReason = <<"Invalid URL '">> \o origURLtext \o <<"'">>],
             calls |-> calls]
       ELSE StatusStage([res |-> r1, calls |-> calls], resp, dl)

\* harvestResourceFromReferrer that goes on to the target's own redirect
harvestResourceFromReferrer_FollowsChain(original, resp, dl) ==
    IF ~original.isHTMLRedirect
    THEN [res |-> Nil, calls |-> <<>>]
    ELSE LET h == harvestResource(original.htmlRedirectURL, resp, dl)
             h2 == IF h.res.isHTMLRedirect
                   THEN harvestResource(h.res.htmlRedirectURL, resp, dl)
                   ELSE [res |-> h.res, calls |-> <<>>]
         IN [res |-> [h2.res EXCEPT !.origResource = original], calls |-> h.calls \o h2.calls]

\* harvestResourceFromReferrer with "result.origResource = original" left out
harvestResourceFromReferrer_NoBackLink(original, resp, dl) ==
    IF ~original.isHTMLRedirect
    THEN [res |-> Nil, calls |-> <<>>]
    ELSE harvestResource(original.htmlRedirectURL, resp, dl)

\* harvestResourceFromReferrer: resp and dl are what the fetch of the redirect
\* target meets (unused when there is no redirect)
harvestResourceFromReferrer(original, resp, dl) ==
    IF ~original.isHTMLRedirect
    THEN [res |-> Nil, calls |-> <<>>]
    ELSE LET h == harvestResource(original.htmlRedirectURL, resp, dl)
         IN [res |-> [h.res EXCEPT !.origResource = original], calls |-> h.calls]

(***************************************************************************)
(* The cleaning step on resolved URLs of every shape, under every rule     *)
(***************************************************************************)
MaxParams == 3

\* raw query pairs of the resolved URLs
CleanPairs ==
    {RawPair("utm_source", "twitter"), RawPair("utm%5Fsource", "x"),
     RawPair("utm_medium", "social"), RawPair("id", "a%20b"), RawPair("id", "7"),
     RawPair("ref", "home")}

\* resolved URLs: resp.Request.URL of a status-200 response
CleanURLs ==
    {MkURL("https", "example.org", <<"/", "page">>, q) : q \in SeqsUpTo(CleanPairs, MaxParams)}

\* what the history keeps of one resolve of a URL of CleanURLs; cleanedParams
\* is the local list of cleanResource, which the program drops on return
CleanRun(url, h) ==
    [url |-> url, res |-> h.res, calls |-> h.calls,
     cleanedParams |-> cleanResource(url, cleanResourceRule).cleanedParams]

InitCleanIdle ==
    /\ cleanResourceRule = removeParamsFromURLsRegExList(defaultCleanURLsRegExList)
    /\ cin = Nil
    /\ cruns = <<>>

InitClean ==
    /\ cleanResourceRule \in CleanRules
    /\ cin \in CleanURLs
    /\ cruns = <<>>

\* harvestResource on a text that resolves to cin (a document, downloaded)
CleanFirst ==
    /\ cin # Nil /\ cruns = <<>>
    /\ \E h \in {harvestResource(URLString(cin),
                                  Response(200, cin, "application/pdf", DocPlain), "stored")} :
          cruns' = <<CleanRun(cin, h)>>
    /\ UNCHANGED <<cleanResourceRule, cin>>
    /\ UNCHANGED <<hvars, svars, kvars, mvars, lvars, rvars>>

\* harvestResource again, on the cleaned URL of the first run
CleanAgain ==
    /\ Len(cruns) = 1 /\ cruns[1].res.isURLCleaned
    /\ \E again \in {cruns[1].res.cleanedURL} :
          \E h \in {harvestResource(URLString(again),
                                    Response(200, again, "application/pdf", DocPlain),
                                    "stored")} :
             cruns' = Append(cruns, CleanRun(again, h))
    /\ UNCHANGED <<cleanResourceRule, cin>>
    /\ UNCHANGED <<hvars, svars, kvars, mvars, lvars, rvars>>

(***************************************************************************)
(* getMetaRefresh on HTML bodies of every shape                            *)
(***************************************************************************)
MaxDigits == 2
MaxSpaces == 2

RedirA == <<"https", "://", "a.example", "/">>
RedirB == <<"https", "://", "b.example", "/">>

\* the delay and the white space of a content attribute
Delays == SeqsUpTo({"1", "0"}, MaxDigits)
Spaces == {[i \in 1..k |-> " "] : k \in 0..MaxSpaces}

\* content attributes <digits><spaces>;<spaces>url=<rest>
DelayedContents ==
    {d \o s1 \o <<";">> \o s2 \o <<"url=">> \o t :
        d \in Delays, s1 \in Spaces, s2 \in Spaces, t \in {RedirA, RedirB}}

\* content attributes of other shapes
OtherContents ==
    {<<"2">>, <<"2", ",", "url=">> \o RedirA, <<"x", ";", "url=">> \o RedirA,
     <<"2", ";">> \o RedirA}

SimpleContents ==
    {<<"0", ";", "url=">> \o RedirA, <<"0", ";", "url=">> \o RedirB, <<"2">>}

\* http-equiv attributes
Equivs == {<<"refresh">>, <<"Refresh">>, <<" ", "refresh", " ">>, <<"content-type">>}

\* the trees html.Parse builds: html, then head with its subtree, then body
\* with its subtree
MetaDocs ==
    {Doc(<<Elem("html"), Elem("head"), Meta(e, c), Elem("body")>>) :
        e \in Equivs, c \in DelayedContents \cup OtherContents}
    \cup {Doc(<<Elem("html"), Elem("head"), Meta(<<"refresh">>, c1), Elem("title"),
                Meta(<<"refresh">>, c2), Elem("body")>>) :
             c1 \in SimpleContents, c2 \in SimpleContents}
    \cup {Doc(<<Elem("html"), Elem("head"), Elem("title"), Elem("body"),
                Meta(<<"refresh">>, c), Elem("p")>>) : c \in SimpleContents}
    \cup {Doc(<<Elem("html"), Elem("head"), Meta(<<"refresh">>, c1), Elem("body"),
                Elem("p"), Meta(<<"refresh">>, c2)>>) :
             c1 \in SimpleContents, c2 \in SimpleContents}
    \cup {DocPlain, DocUnreadable}

InitMetaIdle ==
    /\ mdoc = DocPlain
    /\ mres = Nil

InitMeta ==
    /\ mdoc \in MetaDocs
    /\ mres = Nil

\* getMetaRefresh(resp) on a text/html response whose body is mdoc
MetaScan ==
    /\ mres = Nil
    /\ \E m \in {getMetaRefresh(Response(200, URLLinked, "text/html", mdoc))} : mres' = m
    /\ UNCHANGED mdoc
    /\ UNCHANGED <<hvars, svars, kvars, cvars, lvars, rvars>>

(***************************************************************************)
(* ContentHarvester.HarvestResources                                       *)
(***************************************************************************)
\* Found without the seenUrls lookup
Found_Never(seen, urlText) == FALSE

\* _, found := seenUrls[urlText]
Found(seen, urlText) == urlText \in seen

\* if referredTo != nil && h.followHTMLRedirects { res = referredTo }
ChooseEntry(res, referredTo, follow) ==
    IF referredTo # Nil /\ follow THEN referredTo ELSE res

\* what the history keeps of one iteration of the loop
Entry(urlText, first, referredTo) ==
    [urlText |-> urlText, first |-> first.res, referredTo |-> referredTo.res,
     calls |-> first.calls \o referredTo.calls]

Resolved(text, resp, h) == [text |-> text, resp |-> resp, res |-> h.res, calls |-> h.calls]

Gets(calls) == Cardinality({i \in DOMAIN calls : calls[i].op = "http.Get"})

InitHarvest ==
    /\ urls \in SeqsUpTo(Candidates, MaxUrls)
    /\ followHTMLRedirects \in BOOLEAN
    /\ hpc = "loop"
    /\ idx = 1
    /\ seenUrls = {}
    /\ Resources = <<>>
    /\ resolves = <<>>
    /\ entries = <<>>

\* the loop meets a text it has seen: continue
HarvestSkip ==
    /\ hpc = "loop" /\ idx <= Len(urls)
    /\ Found(seenUrls, urls[idx])
    /\ idx' = idx + 1
    /\ UNCHANGED <<urls, followHTMLRedirects, hpc, seenUrls, Resources, resolves, entries>>
    /\ UNCHANGED <<svars, kvars, cvars, mvars, lvars, rvars>>

\* the loop resolves a new text on which no HTML redirect is detected
HarvestPlain ==
    /\ hpc = "loop" /\ idx <= Len(urls)
    /\ ~Found(seenUrls, urls[idx])
    /\ \E resp \in Web(urls[idx]), dl \in DownloadOutcomes :
          \E first \in {harvestResource(urls[idx], resp, dl)} :
             /\ ~first.res.isHTMLRedirect
             /\ \E referredTo \in {harvestResourceFromReferrer(first.res, ErrResponse, dl)} :
                   /\ Resources' = Append(Resources, ChooseEntry(first.res, referredTo.res,
                                                                 followHTMLRedirects))
                   /\ resolves' = resolves \o <<Resolved(urls[idx], resp, first)>>
                         \o (IF referredTo.res # Nil
                             THEN <<Resolved(first.res.htmlRedirectURL, ErrResponse, referredTo)>>
                             ELSE <<>>)
                   /\ entries' = Append(entries, Entry(urls[idx], first, referredTo))
    /\ seenUrls' = seenUrls \cup {urls[idx]}
    /\ idx' = idx + 1
    /\ UNCHANGED <<urls, followHTMLRedirects, hpc>>
    /\ UNCHANGED <<svars, kvars, cvars, mvars, lvars, rvars>>

\* the loop resolves a new text on which an HTML redirect is detected
HarvestReferred ==
    /\ hpc = "loop" /\ idx <= Len(urls)
    /\ ~Found(seenUrls, urls[idx])
    /\ \E resp \in Web(urls[idx]), dl \in DownloadOutcomes :
          \E first \in {harvestResource(urls[idx], resp, dl)} :
             /\ first.res.isHTMLRedirect
             /\ \E resp2 \in Web(first.res.htmlRedirectURL), dl2 \in DownloadOutcomes :
                   \E referredTo \in {harvestResourceFromReferrer(first.res, resp2, dl2)} :
                      /\ Resources' = Append(Resources, ChooseEntry(first.res, referredTo.res,
                                                                    followHTMLRedirects))
                      /\ resolves' = resolves \o <<Resolved(urls[idx], resp, first)>>
                            \o (IF referredTo.res # Nil
                                THEN <<Resolved(first.res.htmlRedirectURL, resp2, referredTo)>>
                                ELSE <<>>)
                      /\ entries' = Append(entries, Entry(urls[idx], first, referredTo))
    /\ seenUrls' = seenUrls \cup {urls[idx]}
    /\ idx' = idx + 1
    /\ UNCHANGED <<urls, followHTMLRedirects, hpc>>
    /\ UNCHANGED <<svars, kvars, cvars, mvars, lvars, rvars>>

\* return result
HarvestReturn ==
    /\ hpc = "loop" /\ idx > Len(urls)
    /\ hpc' = "done"
    /\ UNCHANGED <<urls, followHTMLRedirects, idx, seenUrls, Resources, resolves, entries>>
    /\ UNCHANGED <<svars, kvars, cvars, mvars, lvars, rvars>>

(***************************************************************************)
(* HarvestedResources.Serialize                                            *)
(***************************************************************************)
HookNames == {"HandleInvalidURL", "HandleInvalidURLDest", "HandleIgnoredURL"}

\* what the template collaborator does for a rendered resource
RenderOutcomes == {"ok", "template error", "execute error"}

Event(cb, i, err) == [cb |-> cb, i |-> i, err |-> err]

\* Disposition with the ignored test made before the validity tests
Disposition_IgnoredFirst(hr) ==
    IF hr.isURLIgnored THEN "HandleIgnoredURL"
    ELSE IF ~hr.isURLValid THEN "HandleInvalidURL"
    ELSE IF ~hr.isDestValid THEN "HandleInvalidURLDest"
    ELSE "render"

\* which branch of the loop body takes the resource
Disposition(hr) ==
    IF ~hr.isURLValid THEN "HandleInvalidURL"
    ELSE IF ~hr.isDestValid THEN "HandleInvalidURLDest"
    ELSE IF hr.isURLIgnored THEN "HandleIgnoredURL"
    ELSE "render"

\* the callbacks the loop body invokes for a rendered resource, each with the
\* error it returns
RenderLog(i, outcome) ==
    IF outcome = "template error"
    THEN <<Event("GetKeys", i, "nil"), Event("GetTemplate", i, outcome)>>
    ELSE <<Event("GetKeys", i, "nil"), Event("GetTemplate", i, "nil"),
           Event("GetTemplateParams", i, "nil"), Event("GetWriter", i, "nil"),
           Event("Execute", i, IF outcome = "execute error" THEN outcome ELSE "nil")>>

\* SerializeOne with both error checks turned into "continue"
SerializeOne_ErrorSwallowed(hr, i, supplied, outcome) ==
    LET d == Disposition(hr)
    IN IF d # "render"
       THEN [log |-> IF supplied[d] THEN <<Event(d, i, "nil")>> ELSE <<>>, err |-> "nil"]
       ELSE [log |-> RenderLog(i, outcome), err |-> "nil"]

\* the body of the loop for resource number i: the callbacks it invokes and
\* the error it makes Serialize return ("nil": the loop goes on)
SerializeOne(hr, i, supplied, outcome) ==
    LET d == Disposition(hr)
    IN IF d # "render"
       THEN [log |-> IF supplied[d] THEN <<Event(d, i, "nil")>> ELSE <<>>, err |-> "nil"]
       ELSE [log |-> RenderLog(i, outcome),
             err |-> IF outcome = "ok" THEN "nil" ELSE outcome]

InitSerialize ==
    /\ spc = "idle"
    /\ sidx = 0
    /\ hooks = [h \in HookNames |-> FALSE]
    /\ serLog = <<>>
    /\ serErr = "nil"

\* r.Serialize(serializer) is called on the harvested batch
SerializeCall ==
    /\ hpc = "done" /\ spc = "idle"
    /\ hooks' \in [HookNames -> BOOLEAN]
    /\ spc' = "loop"
    /\ sidx' = 1
    /\ UNCHANGED <<serLog, serErr>>
    /\ UNCHANGED <<hvars, kvars, cvars, mvars, lvars, rvars>>

\* a resource that is not rendered: its hook, if supplied, then continue
SerializeHook ==
    /\ spc = "loop" /\ sidx <= Len(Resources)
    /\ Disposition(Resources[sidx]) # "render"
    /\ LET one == SerializeOne(Resources[sidx], sidx, hooks, "ok")
       IN /\ serLog' = serLog \o one.log
          /\ sidx' = sidx + 1
    /\ UNCHANGED <<spc, hooks, serErr>>
    /\ UNCHANGED <<hvars, kvars, cvars, mvars, lvars, rvars>>

\* a rendered resource: keys, template, params, writer, Execute
SerializeRender ==
    /\ spc = "loop" /\ sidx <= Len(Resources)
    /\ Disposition(Resources[sidx]) = "render"
    /\ \E outcome \in RenderOutcomes :
          LET one == SerializeOne(Resources[sidx], sidx, hooks, outcome)
          IN /\ serLog' = serLog \o one.log
             /\ IF one.err # "nil"
                THEN /\ serErr' = one.err
                     /\ spc' = "returned"
                     /\ sidx' = sidx
                ELSE /\ sidx' = sidx + 1
                     /\ UNCHANGED <<spc, serErr>>
    /\ UNCHANGED hooks
    /\ UNCHANGED <<hvars, kvars, cvars, mvars, lvars, rvars>>

\* return nil
SerializeReturn ==
    /\ spc = "loop" /\ sidx > Len(Resources)
    /\ spc' = "returned"
    /\ serErr' = "nil"
    /\ UNCHANGED <<sidx, hooks, serLog>>
    /\ UNCHANGED <<hvars, kvars, cvars, mvars, lvars, rvars>>

(***************************************************************************)
(* keys.go: nextRandomNumber, reseed, generateUniqueID                     *)
(***************************************************************************)
MaxTries == 10000
ReseedAfter == 10
LcgA == 1664525
LcgC == 1013904223
Base == 1000000000
Two16 == 65536

\* a uint32 as <<high 16 bits, low 16 bits>>: TLC's integers are 32-bit signed
U32(hi, lo) == <<hi, lo>>

\* values the model lets reseed() return: uint32(time.Now().UnixNano() + pid)
Seeds == {U32(0, 0), U32(4660, 22136)}

\* values of rand the model lets a call of generateUniqueID find (0: never
\* seeded; the others are left by earlier calls)
StartStates == {U32(0, 0), U32(0, 1), U32(65535, 65535)}

\* r*1664525 + 1013904223 modulo 2^32
LcgStep(r) ==
    LET aLo == LcgA % Two16
        aHi == LcgA \div Two16
        cLo == LcgC % Two16
        cHi == LcgC \div Two16
        lo == r[2] * aLo + cLo
        hi == r[1] * aLo + r[2] * aHi + cHi + (lo \div Two16)
    IN U32(hi % Two16, lo % Two16)

\* 1e9 + r, the reduction modulo 1e9 left out (r cut to 30 bits)
Scale_Unreduced(r) == Base + ((r[1] % (Two16 \div 4)) * Two16 + r[2])

\* 1e9 + r%1e9
Scale(r) ==
    LET half == ((r[1] * (Two16 \div 2)) % Base) * 2
    IN Base + (((half % Base) + r[2]) % Base)

\* nextRandomNumber with the lock held throughout: [rand: the new state,
\* value: the number returned]; seed is what reseed() returns if it is called
nextRandomNumber(r0, seed) ==
    LET r == IF r0 = U32(0, 0) THEN seed ELSE r0
        r2 == LcgStep(r)
    IN [rand |-> r2, value |-> Scale(r2)]

\* history of a generateUniqueID call before its first draw
NoHistory ==
    [draws |-> 0, calls |-> 0, rejected |-> 0, reseeds |-> 0,
     firstDraw |-> 0, lastCand |-> 0, lastTry |-> -1, lastAns |-> FALSE,
     exhausted |-> FALSE]

\* history after nextInt was drawn and existsFn(nextInt, i) answered ans
Asked(h, nextInt, i, ans) ==
    [h EXCEPT !.draws = @ + 1, !.calls = @ + 1,
              !.rejected = IF ans THEN @ ELSE @ + 1,
              !.firstDraw = IF h.draws = 0 THEN nextInt ELSE @,
              !.lastCand = nextInt, !.lastTry = i, !.lastAns = ans]

\* the reseed test turned into nconflict >= 10
MustReseed_AtTen(n) == n >= ReseedAfter

\* nconflict++; nconflict > 10
MustReseed(n) == n > ReseedAfter

\* the loop condition turned into i <= 10000
InLoop_OneMore(i) == i <= MaxTries

\* the loop condition i < 10000
InLoop(i) == i < MaxTries

InitKeysIdle ==
    /\ rand = U32(0, 0)
    /\ kpc = "idle"
    /\ ki = 0
    /\ nconflict = 0
    /\ kret = 0
    /\ khist = NoHistory

InitKeys ==
    /\ rand \in StartStates
    /\ kpc = "loop"
    /\ ki = 0
    /\ nconflict = 0
    /\ kret = 0
    /\ khist = NoHistory

\* KeyAttemptUnique with the test inverted: returns when existsFn answers true
KeyAttemptUnique_Inverted ==
    /\ kpc = "loop" /\ InLoop(ki)
    /\ \E seed \in Seeds :
          LET n == nextRandomNumber(rand, seed)
          IN /\ rand' = n.rand
             /\ kret' = n.value
             /\ khist' = Asked(khist, n.value, ki, TRUE)
    /\ kpc' = "done"
    /\ UNCHANGED <<ki, nconflict>>
    /\ UNCHANGED <<hvars, svars, cvars, mvars, lvars, rvars>>

\* one iteration in which existsFn answers false: return nextInt
KeyAttemptUnique ==
    /\ kpc = "loop" /\ InLoop(ki)
    /\ \E seed \in Seeds :
          LET n == nextRandomNumber(rand, seed)
          IN /\ rand' = n.rand
             /\ kret' = n.value
             /\ khist' = Asked(khist, n.value, ki, FALSE)
    /\ kpc' = "done"
    /\ UNCHANGED <<ki, nconflict>>
    /\ UNCHANGED <<hvars, svars, cvars, mvars, lvars, rvars>>

\* one iteration in which existsFn answers true: count the conflict, reseed
\* once there were more than 10, next i
KeyAttemptExists ==
    /\ kpc = "loop" /\ InLoop(ki)
    /\ \E seed \in Seeds, reseeded \in Seeds :
          LET n == nextRandomNumber(rand, seed)
          IN /\ rand' = IF MustReseed(nconflict + 1) THEN reseeded ELSE n.rand
             /\ khist' = [Asked(khist, n.value, ki, TRUE) EXCEPT
                             !.reseeds = IF MustReseed(nconflict + 1) THEN @ + 1 ELSE @]
    /\ nconflict' = nconflict + 1
    /\ ki' = ki + 1
    /\ UNCHANGED <<kpc, kret>>
    /\ UNCHANGED <<hvars, svars, cvars, mvars, lvars, rvars>>

\* the loop ran out: return nextRandomNumber()
KeyGiveUp ==
    /\ kpc = "loop" /\ ~InLoop(ki)
    /\ \E seed \in Seeds :
          LET n == nextRandomNumber(rand, seed)
          IN /\ rand' = n.rand
             /\ kret' = n.value
             /\ khist' = [khist EXCEPT !.draws = @ + 1, !.exhausted = TRUE]
    /\ kpc' = "done"
    /\ UNCHANGED <<ki, nconflict>>
    /\ UNCHANGED <<hvars, svars, cvars, mvars, lvars, rvars>>

(***************************************************************************)
(* keys.go under concurrency: goroutines calling generateUniqueID share    *)
(* rand and randmu.  A step is one statement (or a run of statements on    *)
(* locals) of generateUniqueID or nextRandomNumber.                        *)
(***************************************************************************)
MaxRounds == 2

Goroutines == {"g1", "g2"}

\* randmu unlocked
Free == "free"

\* positions at which a goroutine is between a Lock and its Unlock
Critical == {"read", "step", "unlock", "reseed", "runlock"}

\* locals of a goroutine that is at the loop test with i = nconflict = n
Locals(n) ==
    [r |-> U32(0, 0), i |-> n, nconflict |-> n, nextInt |-> 0, rounds |-> 0, ret |-> 0]

\* positions of the loop at which the model picks a call up: the first
\* attempt, the attempt after 10 conflicts, the last attempt
LoopEntries == {0, ReseedAfter, MaxTries - 1}

InitLockIdle ==
    /\ randmu = Free
    /\ gpc = [g \in Goroutines |-> "idle"]
    /\ gloc = [g \in Goroutines |-> Locals(0)]

InitLock ==
    /\ randmu = Free
    /\ gpc = [g \in Goroutines |-> "call"]
    /\ gloc \in [Goroutines -> {Locals(n) : n \in LoopEntries}]

\* randmu.Lock() without waiting for the mutex to be free
Lock_NoWait(g) == randmu' = g

\* randmu.Lock()
Lock(g) == randmu = Free /\ randmu' = g

\* randmu.Unlock()
Unlock(g) == randmu' = Free

\* nextRandomNumber is entered (from the loop body, or after the loop)
GoLock(g) ==
    /\ gpc[g] = "call"
    /\ Lock(g)
    /\ gpc' = [gpc EXCEPT ![g] = "read"]
    /\ UNCHANGED <<gloc, kvars>>
    /\ UNCHANGED <<hvars, svars, cvars, mvars, rvars>>

\* r := rand; if r == 0 { r = reseed() }
GoRead(g) ==
    /\ gpc[g] = "read"
    /\ \E seed \in Seeds :
          gloc' = [gloc EXCEPT ![g].r = IF rand = U32(0, 0) THEN seed ELSE rand]
    /\ gpc' = [gpc EXCEPT ![g] = "step"]
    /\ UNCHANGED <<randmu, kvars>>
    /\ UNCHANGED <<hvars, svars, cvars, mvars, rvars>>

\* r = r*1664525 + 1013904223; rand = r
GoStep(g) ==
    /\ gpc[g] = "step"
    /\ rand' = LcgStep(gloc[g].r)
    /\ gloc' = [gloc EXCEPT ![g].r = LcgStep(gloc[g].r)]
    /\ gpc' = [gpc EXCEPT ![g] = "unlock"]
    /\ UNCHANGED <<randmu, kpc, ki, nconflict, kret, khist>>
    /\ UNCHANGED <<hvars, svars, cvars, mvars, rvars>>

\* randmu.Unlock(); return 1e9 + r%1e9, to the loop body or as the result
GoUnlock(g) ==
    /\ gpc[g] = "unlock"
    /\ Unlock(g)
    /\ IF InLoop(gloc[g].i)
       THEN /\ gloc' = [gloc EXCEPT ![g].nextInt = Scale(gloc[g].r)]
            /\ gpc' = [gpc EXCEPT ![g] = "ask"]
       ELSE /\ gloc' = [gloc EXCEPT ![g].ret = Scale(gloc[g].r)]
            /\ gpc' = [gpc EXCEPT ![g] = "done"]
    /\ UNCHANGED kvars
    /\ UNCHANGED <<hvars, svars, cvars, mvars, rvars>>

\* existsFn(nextInt, i) answers false: return nextInt
GoAskUnique(g) ==
    /\ gpc[g] = "ask"
    /\ gloc' = [gloc EXCEPT ![g].ret = gloc[g].nextInt]
    /\ gpc' = [gpc EXCEPT ![g] = "done"]
    /\ UNCHANGED <<randmu, kvars>>
    /\ UNCHANGED <<hvars, svars, cvars, mvars, rvars>>

\* existsFn(nextInt, i) answers true: nconflict++, then the reseed or i++.
\* The predicates of the model answer true at most MaxRounds times a call.
GoAskExists(g) ==
    /\ gpc[g] = "ask"
    /\ gloc[g].rounds < MaxRounds
    /\ IF MustReseed(gloc[g].nconflict + 1)
       THEN /\ gloc' = [gloc EXCEPT ![g].nconflict = @ + 1, ![g].rounds = @ + 1]
            /\ gpc' = [gpc EXCEPT ![g] = "rlock"]
       ELSE /\ gloc' = [gloc EXCEPT ![g].nconflict = @ + 1, ![g].rounds = @ + 1,
                                    ![g].i = @ + 1]
            /\ gpc' = [gpc EXCEPT ![g] = "call"]
    /\ UNCHANGED <<randmu, kvars>>
    /\ UNCHANGED <<hvars, svars, cvars, mvars, rvars>>

\* randmu.Lock() of the reseed
GoReseedLock(g) ==
    /\ gpc[g] = "rlock"
    /\ Lock(g)
    /\ gpc' = [gpc EXCEPT ![g] = "reseed"]
    /\ UNCHANGED <<gloc, kvars>>
    /\ UNCHANGED <<hvars, svars, cvars, mvars, rvars>>

\* rand = reseed()
GoReseed(g) ==
    /\ gpc[g] = "reseed"
    /\ rand' \in Seeds
    /\ gpc' = [gpc EXCEPT ![g] = "runlock"]
    /\ UNCHANGED <<randmu, gloc, kpc, ki, nconflict, kret, khist>>
    /\ UNCHANGED <<hvars, svars, cvars, mvars, rvars>>

\* randmu.Unlock() of the reseed; i++
GoReseedUnlock(g) ==
    /\ gpc[g] = "runlock"
    /\ Unlock(g)
    /\ gloc' = [gloc EXCEPT ![g].i = @ + 1]
    /\ gpc' = [gpc EXCEPT ![g] = "call"]
    /\ UNCHANGED kvars
    /\ UNCHANGED <<hvars, svars, cvars, mvars, rvars>>

\* the steps of goroutine g
Go(g) ==
    \/ GoLock(g)
    \/ GoRead(g)
    \/ GoStep(g)
    \/ GoUnlock(g)
    \/ GoAskUnique(g)
    \/ GoAskExists(g)
    \/ GoReseedLock(g)
    \/ GoReseed(g)
    \/ GoReseedUnlock(g)

(***************************************************************************)
(* nextRandomNumber called on its own, from any state of rand              *)
(***************************************************************************)
\* calls of nextRandomNumber in a row
MaxDraws == 2

\* 16-bit halves of the sampled states of rand: the ends and the middle of
\* the range, and a stride through it
RandLimbs ==
    {0, 1, 2, (Two16 \div 2) - 1, Two16 \div 2, Two16 - 2, Two16 - 1}
        \cup {(k * 4099) % Two16 : k \in 1..24}

RandStates == {U32(hi, lo) : hi \in RandLimbs, lo \in RandLimbs}

InitRandIdle == rlog = <<>>

InitRand == rlog = <<>> /\ rand \in RandStates

\* one call of nextRandomNumber; seed is what reseed() returns if r == 0
RandDraw ==
    /\ Len(rlog) < MaxDraws
    /\ \E seed \in Seeds :
          \E n \in {nextRandomNumber(rand, seed)} :
              /\ rand' = n.rand
              /\ rlog' = Append(rlog, [r0 |-> rand, seed |-> seed, rand |-> n.rand,
                                       value |-> n.value])
    /\ UNCHANGED <<kpc, ki, nconflict, kret, khist>>
    /\ UNCHANGED <<hvars, svars, cvars, mvars, lvars>>

(***************************************************************************)
(* Specifications                                                          *)
(***************************************************************************)
InitHarvestIdle ==
    /\ urls = <<>> /\ followHTMLRedirects = FALSE /\ hpc = "done" /\ idx = 1
    /\ seenUrls = {} /\ Resources = <<>> /\ resolves = <<>> /\ entries = <<>>

\* a batch is harvested, then serialized
Init ==
    /\ InitHarvest /\ InitSerialize /\ InitKeysIdle
    /\ InitCleanIdle /\ InitMetaIdle /\ InitLockIdle /\ InitRandIdle

Next ==
    \/ HarvestSkip
    \/ HarvestPlain
    \/ HarvestReferred
    \/ HarvestReturn
    \/ SerializeCall
    \/ SerializeHook
    \/ SerializeRender
    \/ SerializeReturn

Spec == Init /\ [][Next]_vars

\* one call of generateUniqueID
InitK ==
    /\ urls = <<>> /\ followHTMLRedirects = FALSE /\ hpc = "done" /\ idx = 1
    /\ seenUrls = {} /\ Resources = <<>> /\ resolves = <<>> /\ entries = <<>>
    /\ InitSerialize
    /\ InitKeys
    /\ InitCleanIdle /\ InitMetaIdle /\ InitLockIdle /\ InitRandIdle

NextK ==
    \/ KeyAttemptUnique
    \/ KeyAttemptExists
    \/ KeyGiveUp

SpecKeys == InitK /\ [][NextK]_vars

\* the same call, which goes on running as long as it has a statement to run
\* (existsFn returns every time it is called)
SpecKeysLive == InitK /\ [][NextK]_vars /\ WF_vars(NextK)

\* one resolved URL goes through the cleaning step, and its cleaned URL again
InitC ==
    /\ InitHarvestIdle /\ InitSerialize /\ InitKeysIdle
    /\ InitClean /\ InitMetaIdle /\ InitLockIdle /\ InitRandIdle

NextC ==
    \/ CleanFirst
    \/ CleanAgain

SpecClean == InitC /\ [][NextC]_vars

\* getMetaRefresh is called on one HTML body
InitM ==
    /\ InitHarvestIdle /\ InitSerialize /\ InitKeysIdle
    /\ InitCleanIdle /\ InitMeta /\ InitLockIdle /\ InitRandIdle

NextM == MetaScan

SpecMeta == InitM /\ [][NextM]_vars

\* two goroutines inside generateUniqueID; the Go scheduler lets every
\* goroutine that can run make its next step
InitL ==
    /\ InitHarvestIdle /\ InitSerialize
    /\ rand \in StartStates
    /\ kpc = "idle" /\ ki = 0 /\ nconflict = 0 /\ kret = 0 /\ khist = NoHistory
    /\ InitCleanIdle /\ InitMetaIdle /\ InitLock /\ InitRandIdle

NextL == \E g \in Goroutines : Go(g)

SpecLock == InitL /\ [][NextL]_vars /\ \A g \in Goroutines : WF_vars(Go(g))

\* nextRandomNumber is called a few times in a row, from a sampled state
InitR ==
    /\ InitHarvestIdle /\ InitSerialize
    /\ kpc = "idle" /\ ki = 0 /\ nconflict = 0 /\ kret = 0 /\ khist = NoHistory
    /\ InitCleanIdle /\ InitMetaIdle /\ InitLockIdle /\ InitRand

NextR == RandDraw

SpecRand == InitR /\ [][NextR]_vars

(***************************************************************************)
(* Properties of harvestResource (checked under Spec)                      *)
(***************************************************************************)
\* the history record h is a resolve whose response had status 200
Got200(h) == ~h.resp.err /\ h.resp.StatusCode = 200

\* some pattern of the default ignore list matches the token string s
IgnorePatternMatches(s) ==
    \E i \in DOMAIN defaultIgnoreURLsRegExList : RegExMatch(defaultIgnoreURLsRegExList[i], s)

NothingAfterFetch(r) ==
    /\ r.resolvedURL = Nil /\ r.finalURL = Nil /\ r.cleanedURL = Nil
    /\ r.resourceContent = Nil /\ ~r.isURLCleaned
    /\ ~r.isHTMLRedirect /\ r.htmlRedirectURL = <<>>

\* C1: when http.Get of the candidate text fails, the resource has
\* urlValid=false, destinationValid=false, ignored=true, a reason containing
\* the literal candidate text, and no later stage has run (resolvedURL,
\* finalURL, cleanedURL, content are nil, cleaned=false, no HTML redirect,
\* nothing but http.Get was called).
C1_FetchFailureIsTerminal ==
    \A k \in DOMAIN resolves :
        resolves[k].resp.err =>
            LET r == resolves[k].res
            IN /\ ~r.isURLValid /\ ~r.isDestValid /\ r.isURLIgnored
               /\ IsInfix(resolves[k].text, r.ignoreReason)
               /\ NothingAfterFetch(r)
               /\ resolves[k].calls = <<Call("http.Get", resolves[k].text)>>

C1_Witness ==
    \E k \in DOMAIN resolves : resolves[k].resp.err /\ resolves[k].text = TxtMalformed

\* C2: when the fetch succeeds with a status other than 200, the resource
\* has urlValid=true, destinationValid=false, httpStatusCode = the status,
\* ignored=true with a reason naming the status code, and nothing after the
\* fetch has run: neither rule was consulted, resolvedURL, finalURL and
\* content are nil.
C2_BadStatusIsTerminal ==
    \A k \in DOMAIN resolves :
        (~resolves[k].resp.err /\ resolves[k].resp.StatusCode # 200) =>
            LET r == resolves[k].res
            IN /\ r.isURLValid /\ ~r.isDestValid /\ r.isURLIgnored
               /\ r.httpStatusCode = resolves[k].resp.StatusCode
               /\ Contains(r.ignoreReason, Itoa(resolves[k].resp.StatusCode))
               /\ NothingAfterFetch(r)
               /\ resolves[k].calls = <<Call("http.Get", resolves[k].text)>>

C2_Witness ==
    \E k \in DOMAIN resolves :
        /\ ~resolves[k].resp.err /\ resolves[k].resp.StatusCode = 404
        /\ resolves[k].res.httpStatusCode = 404

\* C3: for a status-200 destination whose resolved URL an ignore pattern
\* matches, the resource has destinationValid=true, ignored=true and the
\* reason of the first matching rule, and resolution stops there: the clean
\* rule is not consulted (cleaned=false, cleanedURL nil), content is nil and
\* no HTML redirect detection is done.
C3_IgnoredIsTerminal ==
    \A k \in DOMAIN resolves :
        (Got200(resolves[k]) /\ IgnorePatternMatches(URLString(resolves[k].resp.URL))) =>
            LET r == resolves[k].res
                m == FirstMatch(defaultIgnoreURLsRegExList, URLString(resolves[k].resp.URL))
            IN /\ r.isURLValid /\ r.isDestValid /\ r.isURLIgnored
               /\ r.ignoreReason = <<"Matched Ignore Rule ", defaultIgnoreURLsRegExList[m]>>
               /\ ~r.isURLCleaned /\ r.cleanedURL = Nil /\ r.resourceContent = Nil
               /\ ~r.isHTMLRedirect /\ r.htmlRedirectURL = <<>>
               /\ resolves[k].calls = <<Call("http.Get", resolves[k].text),
                                        Call("IgnoreDiscoveredResource", resolves[k].resp.URL)>>

C3_Witness ==
    \E k \in DOMAIN resolves :
        /\ Got200(resolves[k]) /\ resolves[k].resp.URL = URLTweet
        /\ resolves[k].res.isURLIgnored

\* C4: the ignore rule is asked once, about the resolved URL and never about
\* the candidate text: a status-200 resource is ignored exactly when a
\* pattern matches its resolved URL, so a candidate whose own text matches a
\* pattern (a https://t.co link) but whose resolved URL matches none has
\* ignored=false.
C4_IgnoreJudgesResolvedURL ==
    \A k \in DOMAIN resolves :
        Got200(resolves[k]) =>
            /\ resolves[k].res.isURLIgnored
                  <=> IgnorePatternMatches(URLString(resolves[k].resp.URL))
            /\ \A c \in DOMAIN resolves[k].calls :
                  resolves[k].calls[c].op = "IgnoreDiscoveredResource"
                     => resolves[k].calls[c].arg = resolves[k].resp.URL

C4_Witness ==
    \E k \in DOMAIN resolves :
        /\ Got200(resolves[k])
        /\ IgnorePatternMatches(resolves[k].text)
        /\ ~IgnorePatternMatches(URLString(resolves[k].resp.URL))
        /\ ~resolves[k].res.isURLIgnored

\* C5: for every successfully resolved (status 200), non-ignored resource,
\* finalURL = cleanedURL when cleaned=true and finalURL = resolvedURL when
\* cleaned=false.
C5_FinalURLFollowsCleaning ==
    \A k \in DOMAIN resolves :
        (Got200(resolves[k]) /\ ~resolves[k].res.isURLIgnored) =>
            LET r == resolves[k].res
            IN /\ r.resolvedURL = resolves[k].resp.URL
               /\ r.isURLCleaned => (r.cleanedURL # Nil /\ r.finalURL = r.cleanedURL)
               /\ ~r.isURLCleaned => r.finalURL = r.resolvedURL

C5_Witness ==
    /\ \E k \in DOMAIN resolves :
          /\ Got200(resolves[k]) /\ resolves[k].res.isURLCleaned
          /\ resolves[k].res.finalURL # resolves[k].res.resolvedURL
    /\ \E k \in DOMAIN resolves :
          /\ Got200(resolves[k]) /\ ~resolves[k].res.isURLIgnored
          /\ ~resolves[k].res.isURLCleaned

\* C6: in every resource harvestResource returns, and in every entry of the
\* batch, destinationValid=true implies finalURL is not nil (also for a
\* resource stopped by the ignore rule).
C6_FinalURLSetWhenDestValid ==
    /\ \A k \in DOMAIN resolves :
          resolves[k].res.isDestValid => resolves[k].res.finalURL # Nil
    /\ \A i \in DOMAIN Resources : Resources[i].isDestValid => Resources[i].finalURL # Nil

C6_Witness ==
    \E k \in DOMAIN resolves :
        /\ resolves[k].res.isDestValid /\ resolves[k].res.isURLIgnored
        /\ resolves[k].res.finalURL = resolves[k].resp.URL

(***************************************************************************)
(* Properties of generateUniqueID (checked under SpecKeys)                 *)
(***************************************************************************)
\* C7: unless the attempts ran out, generateUniqueID returns the candidate
\* of its last predicate call, which is the only call the predicate answered
\* "does not exist" (the first candidate it rejects), the calls before it
\* having the attempt numbers 0, 1, ...; if no call answered "exists", the
\* predicate was called once, with attempt number 0, and the first draw is
\* returned.
C7_ReturnsFirstRejected ==
    (kpc = "done" /\ ~khist.exhausted) =>
        /\ kret = khist.lastCand
        /\ ~khist.lastAns
        /\ khist.rejected = 1
        /\ khist.calls = khist.lastTry + 1
        /\ khist.draws = khist.calls
        /\ (khist.calls - khist.rejected = 0) =>
              (khist.calls = 1 /\ khist.lastTry = 0 /\ kret = khist.firstDraw)

C7_Witness ==
    /\ kpc = "done" /\ ~khist.exhausted
    /\ khist.calls = 3 /\ kret = khist.lastCand /\ kret # khist.firstDraw

(***************************************************************************)
(* Properties of HarvestResources and Serialize (checked under Spec)       *)
(***************************************************************************)
\* the distinct elements of s in the order of their first occurrence
FirstOccurrences(s) ==
    LET F[i \in 0..Len(s)] ==
            IF i = 0 THEN <<>>
            ELSE IF Contains(F[i - 1], s[i]) THEN F[i - 1] ELSE Append(F[i - 1], s[i])
    IN F[Len(s)]

\* the texts harvestResource was called on for a candidate (not for a
\* redirect target), in call order
TopLevelTexts ==
    LET F[k \in 0..Len(resolves)] ==
            IF k = 0 THEN <<>>
            ELSE IF resolves[k].res.origResource = Nil
                 THEN Append(F[k - 1], resolves[k].text)
                 ELSE F[k - 1]
    IN F[Len(resolves)]

\* C8: when HarvestResources returns, the batch holds exactly one entry per
\* distinct candidate text, in the order of first occurrence; each distinct
\* text was resolved once (a repeated text is not resolved again); and the
\* entry is there whatever the outcome (fetch failure, non-200, ignored), the
\* candidates after it being resolved all the same.
C8_OneEntryPerDistinctText ==
    hpc = "done" =>
        LET d == FirstOccurrences(urls)
        IN /\ Len(Resources) = Len(d)
           /\ Len(entries) = Len(d)
           /\ TopLevelTexts = d
           /\ \A i \in DOMAIN entries :
                 /\ entries[i].urlText = d[i]
                 /\ entries[i].first.origURLtext = d[i]
                 /\ entries[i].calls[1] = Call("http.Get", d[i])
                 /\ Resources[i] \in {entries[i].first, entries[i].referredTo}

C8_Witness ==
    /\ hpc = "done" /\ Len(urls) = 2 /\ Len(Resources) = 2
    /\ ~Resources[1].isDestValid /\ Resources[1].isURLIgnored
    /\ Resources[2].isDestValid /\ ~Resources[2].isURLIgnored

\* C9: with followHTMLRedirects disabled, a detected meta-refresh redirect is
\* reported on the entry of the batch and no second http.Get is issued for
\* the redirect target.
C9_NoSecondFetchWhenDisabled ==
    ~followHTMLRedirects =>
        \A i \in DOMAIN entries :
            /\ entries[i].first.isHTMLRedirect =>
                  /\ Resources[i].isHTMLRedirect
                  /\ Resources[i].htmlRedirectURL = entries[i].first.htmlRedirectURL
            /\ Gets(entries[i].calls) = 1

\* C10: a render failure (GetTemplate or Execute returns an error) ends
\* Serialize at once with that error: the failing callback is the last one
\* invoked, no resource after the failing one reaches a hook or the render
\* step; and Serialize returns nil only when every renderable resource was
\* executed without error.
C10_RenderFailureAborts ==
    /\ \A e \in DOMAIN serLog :
          serLog[e].err # "nil" =>
              /\ e = Len(serLog)
              /\ spc = "returned" /\ serErr = serLog[e].err
              /\ \A j \in DOMAIN serLog : serLog[j].i <= serLog[e].i
    /\ (spc = "returned" /\ serErr # "nil") =>
          (serLog # <<>> /\ serLog[Len(serLog)].err = serErr)
    /\ (spc = "returned" /\ serErr = "nil") =>
          \A i \in DOMAIN Resources :
              (Resources[i].isURLValid /\ Resources[i].isDestValid
                  /\ ~Resources[i].isURLIgnored)
                 => Contains(serLog, Event("Execute", i, "nil"))

C10_Witness ==
    /\ spc = "returned" /\ serErr = "execute error"
    /\ Len(Resources) = 2 /\ serLog[Len(serLog)].i = 1
    /\ \A j \in DOMAIN serLog : serLog[j].i = 1

(***************************************************************************)
(* Properties of harvestResourceFromReferrer (checked under Spec)          *)
(***************************************************************************)
\* some parameter name of the URL u matches a pattern of the clean rule list l
CleanPatternMatches(l, u) ==
    \E n \in DOMAIN Query(u) : \E i \in DOMAIN l : RegExMatch(l[i], n)

\* C11: harvestResourceFromReferrer returns nil, without any fetch, when the
\* given resource has no detected HTML redirect; otherwise it resolves the
\* redirect target text with harvestResource (one more http.Get, on that
\* text; the target is ignored and cleaned by the same rules) and returns a
\* new resource whose origResource is the given resource.
C11_ReferrerResolvesTarget ==
    \A i \in DOMAIN entries :
        LET e == entries[i]
        IN /\ ~e.first.isHTMLRedirect => (e.referredTo = Nil /\ Gets(e.calls) = 1)
           /\ e.first.isHTMLRedirect =>
                 /\ e.referredTo # Nil
                 /\ e.referredTo.origResource = e.first
                 /\ e.referredTo.origURLtext = e.first.htmlRedirectURL
                 /\ Gets(e.calls) = 2
                 /\ Contains(e.calls, Call("http.Get", e.first.htmlRedirectURL))
                 /\ \E k \in DOMAIN resolves :
                       /\ resolves[k].text = e.first.htmlRedirectURL
                       /\ resolves[k].res = e.referredTo
                       /\ \E dl \in DownloadOutcomes :
                             [e.referredTo EXCEPT !.origResource = Nil]
                                = harvestResource(resolves[k].text, resolves[k].resp, dl).res
                       /\ Got200(resolves[k]) =>
                             /\ e.referredTo.isURLIgnored
                                   <=> IgnorePatternMatches(URLString(resolves[k].resp.URL))
                             /\ ~e.referredTo.isURLIgnored =>
                                   (e.referredTo.isURLCleaned
                                      <=> CleanPatternMatches(cleanResourceRule.list,
                                                              resolves[k].resp.URL))

C11_Witness ==
    \E i \in DOMAIN entries :
        /\ entries[i].first.isHTMLRedirect
        /\ entries[i].referredTo # Nil
        /\ entries[i].referredTo.origResource = entries[i].first
        /\ entries[i].referredTo.isURLCleaned
        /\ \E j \in DOMAIN entries : ~entries[j].first.isHTMLRedirect

(***************************************************************************)
(* Properties of the cleaning step (checked under SpecClean)               *)
(***************************************************************************)
\* the rule would remove something from the URL u
RuleApplies(rule, u) == rule.gate /\ CleanPatternMatches(rule.list, u)

\* C12: when the rule's CleanDiscoveredResource refuses the URL, or no query
\* parameter name of the resolved URL matches a pattern of the rule, the
\* resource has cleaned=false, cleanedURL nil and finalURL equal to the
\* resolved URL, with the same text (the query string is not re-encoded);
\* and cleanedURL is non-nil only when the rule applied and some parameter
\* name of the resolved URL is gone from it.
C12_UntouchedWhenNothingMatches ==
    \A k \in DOMAIN cruns :
        LET r == cruns[k].res
            u == cruns[k].url
        IN /\ ~RuleApplies(cleanResourceRule, u) =>
                 /\ ~r.isURLCleaned /\ r.cleanedURL = Nil
                 /\ r.finalURL = u
                 /\ URLString(r.finalURL) = URLString(u)
           /\ r.cleanedURL # Nil =>
                 /\ RuleApplies(cleanResourceRule, u)
                 /\ \E n \in DOMAIN Query(u) : n \notin DOMAIN Query(r.cleanedURL)

C12_Witness ==
    \E k \in DOMAIN cruns :
        /\ cleanResourceRule.gate /\ cleanResourceRule.list # <<>>
        /\ cruns[k].url.RawQuery = <<RawPair("id", "a%20b"), RawPair("ref", "home")>>
        /\ ~cruns[k].res.isURLCleaned
        /\ cruns[k].res.finalURL = cruns[k].url

\* C13: cleaning is idempotent: a resolve, under the same rule, of the
\* cleaned URL of an earlier resolve removes nothing: cleaned=false,
\* cleanedURL nil, and finalURL is that URL with its text unchanged.
C13_CleaningIsIdempotent ==
    Len(cruns) = 2 =>
        /\ cruns[2].url = cruns[1].res.cleanedURL
        /\ ~cruns[2].res.isURLCleaned
        /\ cruns[2].res.cleanedURL = Nil
        /\ cruns[2].res.finalURL = cruns[1].res.cleanedURL
        /\ URLString(cruns[2].res.finalURL) = URLString(cruns[1].res.cleanedURL)

C13_Witness ==
    /\ Len(cruns) = 2
    /\ cruns[1].url.RawQuery = <<RawPair("utm%5Fsource", "x"), RawPair("id", "a%20b")>>
    /\ cruns[2].url.RawQuery = <<RawPair("id", "a+b")>>
    /\ ~cruns[2].res.isURLCleaned

\* C14: cleaning never changes the resolved URL: resolvedURL is the URL of
\* the response with its full query string, whether or not parameters were
\* removed; when cleaned=true, cleanedURL is another URL value whose text
\* differs from resolvedURL's; when cleaned=false there is no cleanedURL.
C14_ResolvedURLKeptByCleaning ==
    \A k \in DOMAIN cruns :
        LET r == cruns[k].res
        IN /\ r.resolvedURL = cruns[k].url
           /\ r.resolvedURL.RawQuery = cruns[k].url.RawQuery
           /\ r.isURLCleaned =>
                 /\ r.cleanedURL # Nil
                 /\ r.cleanedURL # r.resolvedURL
                 /\ URLString(r.cleanedURL) # URLString(r.resolvedURL)
           /\ ~r.isURLCleaned => r.cleanedURL = Nil

C14_Witness ==
    \E k \in DOMAIN cruns :
        /\ cruns[k].res.isURLCleaned
        /\ cruns[k].res.resolvedURL.RawQuery
              = <<RawPair("utm_source", "twitter"), RawPair("ref", "home")>>
        /\ cruns[k].res.cleanedURL.RawQuery = <<RawPair("ref", "home")>>

(***************************************************************************)
(* Properties of detectResourceContent (checked under Spec)                *)
(***************************************************************************)
\* the resolves that reached content classification
Classified == {k \in DOMAIN resolves : resolves[k].res.resourceContent # Nil}

DownloadCalled(k) ==
    \E c \in DOMAIN resolves[k].calls : resolves[k].calls[c].op = "DownloadContent"

\* C15: a descriptor whose media type is text/html was not downloaded
\* (wasDownloaded=false, DownloadContent not called); a descriptor with a
\* parseable media type other than text/html, or of a response without a
\* Content-Type header, was downloaded (wasDownloaded=true, whatever the
\* download met); so a download happened only for a media type that is not
\* HTML or is absent.
C15_DownloadOnlyWhenNotHTML ==
    \A k \in Classified :
        LET c == resolves[k].res.resourceContent
        IN /\ c.ContentType = resolves[k].resp.ContentType
           /\ c.MediaType = "text/html" => (~WasDownloaded(c) /\ ~DownloadCalled(k))
           /\ (c.ContentType = "" \/ (c.MediaTypeError = Nil /\ c.MediaType # "text/html"))
                 => (WasDownloaded(c) /\ DownloadCalled(k))
           /\ WasDownloaded(c) <=> DownloadCalled(k)

C15_Witness ==
    /\ \E k \in Classified :
          /\ resolves[k].res.resourceContent.ContentType = "text/html; charset=utf-8"
          /\ ~WasDownloaded(resolves[k].res.resourceContent)
    /\ \E k \in Classified :
          /\ resolves[k].res.resourceContent.ContentType \in {"", "application/pdf"}
          /\ WasDownloaded(resolves[k].res.resourceContent)

\* C16: a Content-Type header that fails to parse is recorded as the
\* descriptor's media-type error and classification goes on: the body is
\* downloaded (DownloadContent is called) for that response.
C16_ParseFailureStillDownloads ==
    \A k \in Classified :
        LET c == resolves[k].res.resourceContent
        IN (c.ContentType # "" /\ ParseMediaType(c.ContentType).err # Nil) =>
              /\ c.MediaTypeError = ParseMediaType(c.ContentType).err
              /\ WasDownloaded(c)
              /\ DownloadCalled(k)

(***************************************************************************)
(* Properties of the shared generator state (checked under SpecLock)       *)
(***************************************************************************)
\* every read, update and reseed of rand is done by the holder of randmu, a
\* goroutine holds randmu only between its Lock and its Unlock, and the
\* state an LCG step is computed from is still the state of the generator
LockDiscipline ==
    /\ \A g \in Goroutines : gpc[g] \in Critical <=> randmu = g
    /\ \A g, h \in Goroutines : (gpc[g] \in Critical /\ gpc[h] \in Critical) => g = h
    /\ \A g \in Goroutines :
          gpc[g] = "step" =>
              \/ gloc[g].r = rand
              \/ rand = U32(0, 0) /\ gloc[g].r \in Seeds
    /\ \A g \in Goroutines : gpc[g] = "unlock" => gloc[g].r = rand

\* C17: rand is protected by randmu under every interleaving of concurrent
\* generateUniqueID calls: each read, LCG update and reseed happens while the
\* lock is held by the goroutine doing it, no LCG step is computed from a
\* state another goroutine has changed or is changing, a held lock is always
\* released, and every call returns (no deadlock).
C17_RandProtectedByLock ==
    /\ []LockDiscipline
    /\ \A g \in Goroutines : (randmu = g) ~> (randmu = Free)
    /\ <>(\A g \in Goroutines : gpc[g] = "done")

C17_Witness ==
    /\ gpc["g1"] = "step" /\ randmu = "g1"
    /\ gpc["g2"] = "rlock"
    /\ gloc["g1"].rounds = 1

(***************************************************************************)
(* Properties of getMetaRefresh (checked under SpecMeta)                   *)
(***************************************************************************)
\* node i of the document lies in the head section: after the head element
\* and before the body element
InHeadSection(doc, i) ==
    \E h \in 1..(i - 1) :
        /\ doc.nodes[h].tag = "head"
        /\ \A j \in h..i : doc.nodes[j].tag # "body"

\* the meta elements with http-equiv = refresh (case-insensitively)
RefreshMetas(doc) == {i \in DOMAIN doc.nodes : IsRefreshMeta(doc.nodes[i])}

HeadRefreshMetas(doc) == {i \in RefreshMetas(doc) : InHeadSection(doc, i)}

\* the content attribute of a meta node of the model
ContentOf(n) == TrimSpace(n.Attr[2].Val)

\* the number of leading tokens of c that satisfy Is
LeadingRun(c, Is(_)) ==
    LET F[i \in 0..Len(c)] ==
            IF i = 0 THEN 0
            ELSE IF F[i - 1] = i - 1 /\ Is(c[i]) THEN i ELSE F[i - 1]
    IN F[Len(c)]

IsSpace(t) == t = " "

\* the grammar <optional digits><optional whitespace>;<optional whitespace>
\* url=<rest>, on token sequences: [ok, url]
Grammar(c) ==
    LET d == LeadingRun(c, IsDigit)
        c1 == SubSeq(c, d + 1, Len(c))
        s1 == LeadingRun(c1, IsSpace)
        c2 == SubSeq(c1, s1 + 1, Len(c1))
        c3 == IF c2 # <<>> THEN Tail(c2) ELSE <<>>
        s2 == LeadingRun(c3, IsSpace)
        c4 == SubSeq(c3, s2 + 1, Len(c3))
    IN IF c2 # <<>> /\ c2[1] = ";" /\ c4 # <<>> /\ c4[1] = "url="
       THEN [ok |-> TRUE, url |-> Tail(c4)]
       ELSE [ok |-> FALSE, url |-> <<>>]

Min(S) == CHOOSE x \in S : \A y \in S : x <= y

\* C18: when the head holds several meta elements with http-equiv = refresh,
\* the one honored is the first in document order: the outcome is the one
\* its content attribute gives; a document with none yields no detection and
\* no error.
C18_FirstRefreshMetaHonored ==
    (mres # Nil /\ ~mdoc.parseError /\ RefreshMetas(mdoc) = HeadRefreshMetas(mdoc)) =>
        LET ms == HeadRefreshMetas(mdoc)
        IN /\ RefreshMetas(mdoc) = {} =>
                 (~mres.isHTMLRedirect /\ mres.htmlParseError = Nil)
           /\ ms # {} =>
                 LET first == metaRefreshContentRegEx(ContentOf(mdoc.nodes[Min(ms)]))
                 IN /\ mres.isHTMLRedirect = first.ok
                    /\ first.ok => mres.htmlRedirectURL = first.url

\* C19: only the head section is scanned: when no meta element with
\* http-equiv = refresh lies in the head (the only ones are in the body), no
\* HTML redirect is reported.
C19_OnlyHeadIsScanned ==
    (mres # Nil /\ HeadRefreshMetas(mdoc) = {}) => ~mres.isHTMLRedirect

\* C20: the content attribute of the (single) refresh meta of the head is
\* matched against <optional digits><optional whitespace>;<optional
\* whitespace>url=<rest>: a redirect is detected exactly when the content
\* fits the grammar, for a delay of any number of digits and any white space
\* around the semicolon, and the target is <rest>.
C20_ContentGrammar ==
    (mres # Nil /\ Cardinality(RefreshMetas(mdoc)) = 1
        /\ Cardinality(HeadRefreshMetas(mdoc)) = 1) =>
        LET g == Grammar(ContentOf(mdoc.nodes[Min(HeadRefreshMetas(mdoc))]))
        IN /\ mres.isHTMLRedirect = g.ok
           /\ g.ok => mres.htmlRedirectURL = g.url

\* the parameter name n matches a pattern of the clean rule list l
NameMatches(l, n) == \E i \in DOMAIN l : RegExMatch(l[i], n)

\* C21: when cleaning removes at least one parameter, the cleaned URL holds
\* no parameter whose name matches the rule and holds every other parameter
\* of the resolved URL with all of its values in their original order; a
\* matching name is removed with all of its values; if every name matches,
\* the cleaned URL has no query string.
C21_CleanedURLKeepsTheRest ==
    \A k \in DOMAIN cruns :
        cruns[k].res.isURLCleaned =>
            LET before == Query(cruns[k].url)
                after == Query(cruns[k].res.cleanedURL)
                l == cleanResourceRule.list
            IN /\ DOMAIN after = {n \in DOMAIN before : ~NameMatches(l, n)}
               /\ \A n \in DOMAIN after : after[n] = before[n]
               /\ DOMAIN after # DOMAIN before
               /\ (\A n \in DOMAIN before : NameMatches(l, n)) =>
                     /\ cruns[k].res.cleanedURL.RawQuery = <<>>
                     /\ ~Contains(URLString(cruns[k].res.cleanedURL), "?")

C21_Witness ==
    \E k \in DOMAIN cruns :
        /\ cruns[k].url.RawQuery
              = <<RawPair("id", "a%20b"), RawPair("utm_source", "twitter"), RawPair("id", "7")>>
        /\ cruns[k].res.isURLCleaned
        /\ Query(cruns[k].res.cleanedURL) = [n \in {"id"} |-> <<"a b", "7">>]

\* C22: when several patterns of the clean rule match the same parameter
\* name, the cleaned-parameter list holds one (name, reason) entry for each
\* matching pattern, and the parameter is removed once.
C22_EveryMatchingRuleRecorded ==
    \A k \in DOMAIN cruns :
        cruns[k].res.isURLCleaned =>
            LET l == cleanResourceRule.list
            IN \A n \in DOMAIN Query(cruns[k].url) :
                  /\ NameMatches(l, n) => n \notin DOMAIN Query(cruns[k].res.cleanedURL)
                  /\ \A i \in DOMAIN l :
                        RegExMatch(l[i], n) =>
                            Contains(cruns[k].cleanedParams,
                                     [paramName |-> n,
                                      reason |-> <<"Matched cleaner rule ", l[i]>>])

(***************************************************************************)
(* Properties of the generateUniqueID loop (SpecKeys, SpecKeysLive)        *)
(***************************************************************************)
\* the predicate was called at most 10000 times, its calls had the attempt
\* numbers 0, 1, 2, ... in this order, and every call was shown a fresh draw
AttemptsBounded ==
    /\ khist.calls <= MaxTries
    /\ khist.lastTry = khist.calls - 1
    /\ kpc = "loop" => (ki = khist.calls /\ khist.draws = khist.calls)
    /\ kpc = "done" =>
          khist.draws = khist.calls + (IF khist.exhausted THEN 1 ELSE 0)
    /\ khist.exhausted => khist.calls = MaxTries

\* C23: generateUniqueID always terminates: whatever the predicate answers
\* (also "exists" every time), it is called at most 10,000 times, with the
\* attempt numbers 0, 1, 2, ... and one fresh draw per attempt, and then a
\* value is returned.
C23_AlwaysTerminates ==
    /\ []AttemptsBounded
    /\ <>(kpc = "done" /\ kret >= Base)

C23_Witness ==
    /\ kpc = "done" /\ khist.exhausted
    /\ khist.calls = MaxTries /\ khist.lastTry = MaxTries - 1
    /\ khist.rejected = 0

\* C24: when every attempt was answered "exists", generateUniqueID returns
\* the last candidate that was drawn and shown to the predicate (no further
\* draw is made), without an error.
C24_ReturnsLastShownCandidate ==
    (kpc = "done" /\ khist.exhausted) =>
        /\ kret = khist.lastCand
        /\ khist.draws = khist.calls

\* C25: within one call, no reseed is forced during the first 10 collisions
\* (they are consecutive: the call returns at the first answer "does not
\* exist"), and once more than 10 collisions have occurred a reseed has been
\* forced before the next candidate is drawn: the state the next draw starts
\* from is the one reseed() returned.
C25_ReseedAfterTenCollisions ==
    /\ nconflict = khist.calls - khist.rejected
    /\ nconflict <= ReseedAfter => khist.reseeds = 0
    /\ nconflict > ReseedAfter =>
          /\ khist.reseeds >= 1
          /\ kpc = "loop" => rand \in Seeds

C25_Witness ==
    /\ kpc = "loop" /\ nconflict = ReseedAfter + 1
    /\ khist.reseeds = 1 /\ rand = U32(4660, 22136)

(***************************************************************************)
(* More properties of HarvestResources and Serialize (checked under Spec)  *)
(***************************************************************************)
\* C26: at most one level of HTML redirect is followed per candidate: every
\* iteration of HarvestResources makes at most two http.Get calls, the
\* candidate and its meta-refresh target (the second only when a redirect
\* was detected on the candidate); a redirect detected on the target is not
\* followed (nothing is resolved on behalf of the target); so the batch
\* makes at most two resolves per entry and the loop moves on, also when
\* the pages refer to each other.
C26_OneRedirectLevel ==
    /\ Len(resolves) <= 2 * Len(entries)
    /\ Len(entries) <= idx - 1 /\ idx <= Len(urls) + 1
    /\ \A i \in DOMAIN entries :
          LET e == entries[i]
          IN /\ Gets(e.calls) <= 2
             /\ Gets(e.calls) = 2 => e.first.isHTMLRedirect
             /\ e.referredTo # Nil =>
                   /\ e.referredTo.origURLtext = e.first.htmlRedirectURL
                   /\ \A k \in DOMAIN resolves :
                         resolves[k].res.origResource # e.referredTo

C26_Witness ==
    /\ hpc = "done"
    /\ \E i \in DOMAIN entries :
          /\ entries[i].referredTo # Nil
          /\ entries[i].referredTo.isHTMLRedirect
          /\ entries[i].referredTo.htmlRedirectURL = entries[i].urlText
          /\ Gets(entries[i].calls) = 2

\* the callbacks invoked for resource number i, in order
CallbacksOf(i) ==
    LET F[e \in 0..Len(serLog)] ==
            IF e = 0 THEN <<>>
            ELSE IF serLog[e].i = i THEN Append(F[e - 1], serLog[e].cb) ELSE F[e - 1]
    IN F[Len(serLog)]

\* the hook named h alone, if the serializer supplies it
OnlyHook(h) == IF hooks[h] THEN <<h>> ELSE <<>>

RenderCallbacks == {"GetKeys", "GetTemplate", "GetTemplateParams", "GetWriter", "Execute"}

\* C27: Serialize visits the resources in sequence order and gives each one
\* disposition, chosen by the first test that applies: urlValid=false, the
\* invalid-URL hook only; else destinationValid=false, the
\* invalid-destination hook only; else ignored=true, the ignored hook only;
\* else the render step (keys, template, params, writer, Execute).  A hook
\* that is not supplied is skipped, no hook makes Serialize return an error,
\* and keys, template and writer are requested only for rendered resources.
C27_OneDispositionPerResource ==
    /\ \A a, b \in DOMAIN serLog : a < b => serLog[a].i <= serLog[b].i
    /\ \A i \in DOMAIN Resources :
          i < sidx =>
              LET r == Resources[i]
              IN CallbacksOf(i) =
                    IF ~r.isURLValid THEN OnlyHook("HandleInvalidURL")
                    ELSE IF ~r.isDestValid THEN OnlyHook("HandleInvalidURLDest")
                    ELSE IF r.isURLIgnored THEN OnlyHook("HandleIgnoredURL")
                    ELSE <<"GetKeys", "GetTemplate", "GetTemplateParams", "GetWriter",
                           "Execute">>
    /\ \A e \in DOMAIN serLog :
          LET r == Resources[serLog[e].i]
          IN /\ serLog[e].cb \in RenderCallbacks =>
                   (r.isURLValid /\ r.isDestValid /\ ~r.isURLIgnored)
             /\ serLog[e].cb \in HookNames => (hooks[serLog[e].cb] /\ serLog[e].err = "nil")
    /\ (spc = "returned" /\ serErr # "nil") =>
          (Resources[sidx].isURLValid /\ Resources[sidx].isDestValid
              /\ ~Resources[sidx].isURLIgnored)

C27_Witness ==
    /\ spc = "returned" /\ serErr = "nil" /\ Len(Resources) = 2
    /\ ~Resources[1].isURLValid /\ ~hooks["HandleInvalidURL"] /\ hooks["HandleIgnoredURL"]
    /\ CallbacksOf(1) = <<>>
    /\ Len(CallbacksOf(2)) = 5

\* (urlValid, destinationValid, ignored) of a resource
Flags(r) == <<r.isURLValid, r.isDestValid, r.isURLIgnored>>

\* C28: in every resource returned by harvestResource the combination
\* (urlValid, destinationValid, ignored) is one of (false,false,true),
\* (true,false,true), (true,true,true), (true,true,false), and resolvedURL
\* is non-nil exactly when the HTTP status received was 200.
C28_FlagCombinations ==
    \A k \in DOMAIN resolves :
        LET r == resolves[k].res
        IN /\ Flags(r) \in {<<FALSE, FALSE, TRUE>>, <<TRUE, FALSE, TRUE>>,
                             <<TRUE, TRUE, TRUE>>, <<TRUE, TRUE, FALSE>>}
           /\ (r.resolvedURL # Nil) <=> Got200(resolves[k])

C28_Witness ==
    /\ hpc = "done"
    /\ \E k \in DOMAIN resolves :
          /\ Flags(resolves[k].res) = <<TRUE, FALSE, TRUE>>
          /\ ~resolves[k].resp.err /\ resolves[k].resp.StatusCode # 200
          /\ resolves[k].res.resolvedURL = Nil
    /\ \E k \in DOMAIN resolves :
          /\ Flags(resolves[k].res) = <<TRUE, TRUE, TRUE>>
          /\ resolves[k].res.resolvedURL # Nil

\* C29: every response body harvestResource obtains is closed by the time the
\* resolution of that candidate has finished, on every path.
C29_EveryBodyClosed ==
    \A k \in DOMAIN resolves :
        ~resolves[k].resp.err =>
            Contains(resolves[k].calls, Call("Body.Close", resolves[k].resp.URL))

(***************************************************************************)
(* Properties of nextRandomNumber (checked under SpecRand)                 *)
(***************************************************************************)
\* C30: whatever the 32-bit state of rand, the candidate nextRandomNumber
\* returns lies in 1,000,000,000 .. 1,999,999,999, so the scaling addition
\* stays below 2^32; the new state is the linear-congruential step, modulo
\* 2^32, of the old state, or of the fresh seed when the old state was 0.
\* (1e9 is a multiple of 2^9, so the candidate and the new state agree in
\* their low 9 bits; 0, 1 and 2^32 - 1 step to c, a + c and c - a.)
C30_CandidateInRange ==
    \A k \in DOMAIN rlog :
        LET e == rlog[k]
        IN /\ e.value >= Base /\ e.value <= 2 * Base - 1
           /\ e.value \div Two16 < Two16
           /\ e.rand[1] \in 0..(Two16 - 1) /\ e.rand[2] \in 0..(Two16 - 1)
           /\ (e.value - e.rand[2]) % (Two16 \div 128) = 0
           /\ e.r0 = U32(0, 0) => e.rand = LcgStep(e.seed)
           /\ (e.r0 = U32(0, 0) /\ e.seed = U32(0, 0)) =>
                 /\ e.rand = U32(LcgC \div Two16, LcgC % Two16)
                 /\ e.value = LcgC
           /\ e.r0 = U32(0, 1) => e.value = LcgA + LcgC
           /\ e.r0 = U32(Two16 - 1, Two16 - 1) => e.value = LcgC - LcgA

C30_Witness ==
    /\ Len(rlog) = MaxDraws
    /\ rlog[1].r0 = U32(0, 0) /\ rlog[1].seed # U32(0, 0)
    /\ rlog[2].r0 = rlog[1].rand /\ rlog[2].r0[1] > 0
    /\ rlog[2].value # rlog[1].value

=============================================================================
